---------------------------- MODULE Spec2Model ----------------------------
(* A model of the posting bots of this repository: app.py (OpenAI, prompt   *)
(* files), temp.py (DeepSeek, built-in fallback prompts) and twitter_bot.py *)
(* (rate-limited OpenAI and DeepSeek calls, cached trending topics).        *)
(* A text is a sequence of code points, so that len(), slicing, strip(),    *)
(* lower() and substring tests are computed as Python computes them.        *)
EXTENDS Integers, Sequences, FiniteSets, TLC

(***************************************************************************)
(* Program constants                                                       *)
(***************************************************************************)
\* app.py:193, temp.py:200: the platform's character limit
TWEET_LIMIT == 280
\* app.py:119: chunk_text's default chunk_size
CHUNK_SIZE == 1000
\* app.py:96, temp.py:121, twitter_bot.py:213: titles kept
MAX_TOPICS == 5
\* twitter_bot.py:204: seconds a cached topic list stays fresh
CACHE_TTL == 900
\* twitter_bot.py:126: length of an OpenAI rate-limit window, seconds
WINDOW_SECONDS == 60

\* twitter_bot.py:66: tokens per minute, gpt-3.5-turbo
TPM_GPT35 == 40000
\* twitter_bot.py:67: tokens per minute, gpt-4o-mini
TPM_GPT4O_MINI == 60000
\* twitter_bot.py:66: requests per minute, gpt-3.5-turbo
RPM_GPT35 == 3
\* twitter_bot.py:67: requests per minute, gpt-4o-mini
RPM_GPT4O_MINI == 3
\* twitter_bot.py:60: tweets per day
DAILY_LIMIT == 50
\* twitter_bot.py:98: seconds until the daily quota resets
DAY_SECONDS == 86400
\* twitter_bot.py:61: Twitter request window, seconds
TWITTER_WINDOW == 900
\* twitter_bot.py:61: Twitter requests per window
TWITTER_REQUEST_LIMIT == 500
\* twitter_bot.py:225: attempts of call_openai_with_backoff
MAX_RETRIES == 5
\* twitter_bot.py:248: cap of one backoff sleep, seconds
BACKOFF_CAP == 60

\* twitter_bot.py:189: Retry-After when the header is absent
DEFAULT_RETRY_AFTER == 1

\* app.py:319, temp.py:300: sleep after a $FEDJA tweet
SLEEP_FEDJA == 43200
\* app.py:323, temp.py:304, twitter_bot.py:292: sleep after a regular tweet
SLEEP_REGULAR == 1800
\* temp.py:308, twitter_bot.py:301: sleep after a meme tweet
SLEEP_MEME == 3600
\* twitter_bot.py:313: sleep after a trend analysis
SLEEP_ANALYSIS == 7200

\* app.py:38, temp.py:38  '9oDw3Q36a8mVHfPCSmxYBXE9iLeJjsCYu97JGpPwDvVZ'
FEDJA_CONTRACT_ADDRESS ==
  <<57, 111, 68, 119, 51, 81, 51, 54, 97, 56, 109, 86, 72, 102, 80, 67, 83, 109, 120, 89, 66, 88, 69, 57, 105, 76, 101, 74, 106, 115, 67, 89, 117, 57, 55, 74, 71, 112, 80, 119, 68, 118, 86, 90>>

\* app.py:39  '@Fedja_SOL'
FEDJA_TWITTER_TAG ==
  <<64, 70, 101, 100, 106, 97, 95, 83, 79, 76>>

\* temp.py:39  'https://x.com/Fedja_SOL'
FEDJA_TWITTER ==
  <<104, 116, 116, 112, 115, 58, 47, 47, 120, 46, 99, 111, 109, 47, 70, 101, 100, 106, 97, 95, 83, 79, 76>>

\* app.py:217, the literal before the address
AppContractPrefix ==
  <<10, 10, 36, 70, 69, 68, 74, 65, 32, 124, 32>>

\* app.py:217, the literal after the address (as the file's characters decode)
AppContractTail ==
  <<32, 63743, 252, 234, 239, 32, 35, 70, 101, 100, 106, 97, 70, 114, 101, 110>>

\* app.py:219, the literal before the tag
AppTwitterPrefix ==
  <<10, 10, 67, 104, 101, 99, 107, 32, 111, 117, 116, 32>>

\* app.py:219, the literal after the tag
AppTwitterTail ==
  <<32, 102, 111, 114, 32, 109, 111, 114, 101, 32, 105, 110, 102, 111, 33, 32, 63743, 252, 234, 239, 32, 35, 70, 101, 100, 106, 97, 77, 111, 111, 110>>

\* temp.py:225 and 227, the literal before the address or link
TempReferencePrefix ==
  <<10, 10, 36, 70, 69, 68, 74, 65, 32, 124, 32>>

\* temp.py:225 and 227, the literal after the address or link
TempReferenceTail ==
  <<32, 128021, 32, 35, 70, 69, 68, 74, 65>>

\* app.py:199-204, the short fallback pool
AppShortFallbacks ==
  << <<67, 114, 121, 112, 116, 111, 32, 105, 115, 32, 119, 105, 108, 100, 32, 116, 111, 100, 97, 121, 33, 32, 63743, 252, 246, 196, 32, 35, 67, 114, 121, 112, 116, 111, 67, 104, 97, 116>>,
     <<65, 73, 32, 105, 115, 32, 99, 104, 97, 110, 103, 105, 110, 103, 32, 101, 118, 101, 114, 121, 116, 104, 105, 110, 103, 33, 32, 63743, 252, 167, 241, 32, 35, 67, 114, 121, 112, 116, 111, 84, 101, 99, 104>>,
     <<68, 101, 70, 105, 32, 105, 115, 32, 116, 104, 101, 32, 102, 117, 116, 117, 114, 101, 33, 32, 63743, 252, 236, 224, 32, 35, 68, 101, 70, 105, 73, 110, 115, 105, 103, 104, 116>>,
     <<77, 101, 109, 101, 99, 111, 105, 110, 115, 32, 97, 114, 101, 32, 104, 101, 114, 101, 32, 116, 111, 32, 115, 116, 97, 121, 33, 32, 63743, 252, 234, 239, 32, 35, 77, 101, 109, 101, 67, 111, 105, 110, 115>> >>

\* temp.py:206-211, the short fallback pool
TempShortFallbacks ==
  << <<67, 114, 121, 112, 116, 111, 32, 105, 115, 32, 119, 105, 108, 100, 32, 116, 111, 100, 97, 121, 33, 32, 128640>>,
     <<65, 73, 32, 105, 115, 32, 99, 104, 97, 110, 103, 105, 110, 103, 32, 101, 118, 101, 114, 121, 116, 104, 105, 110, 103, 33, 32, 129302>>,
     <<68, 101, 70, 105, 32, 105, 115, 32, 116, 104, 101, 32, 102, 117, 116, 117, 114, 101, 33, 32, 128200>>,
     <<77, 101, 109, 101, 99, 111, 105, 110, 115, 32, 97, 114, 101, 32, 104, 101, 114, 101, 32, 116, 111, 32, 115, 116, 97, 121, 33, 32, 128021>> >>

\* temp.py:72-78, FALLBACK_PROMPTS["crypto_meme"]
Fallback_crypto_meme ==
  << <<87, 104, 97, 116, 39, 115, 32, 116, 104, 101, 32, 109, 111, 115, 116, 32, 105, 110, 116, 101, 114, 101, 115, 116, 105, 110, 103, 32, 99, 114, 121, 112, 116, 111, 32, 109, 101, 109, 101, 32, 121, 111, 117, 39, 118, 101, 32, 115, 101, 101, 110, 32, 116, 104, 105, 115, 32, 119, 101, 101, 107, 63, 32, 68, 101, 115, 99, 114, 105, 98, 101, 32, 105, 116, 32, 98, 114, 105, 101, 102, 108, 121, 46>>,
     <<67, 114, 121, 112, 116, 111, 32, 109, 101, 109, 101, 115, 32, 97, 114, 101, 32, 116, 104, 101, 32, 98, 101, 115, 116, 33, 32, 87, 104, 97, 116, 39, 115, 32, 121, 111, 117, 114, 32, 102, 97, 118, 111, 114, 105, 116, 101, 32, 97, 110, 100, 32, 119, 104, 121, 63>>,
     <<84, 104, 101, 32, 99, 114, 121, 112, 116, 111, 32, 99, 111, 109, 109, 117, 110, 105, 116, 121, 32, 108, 111, 118, 101, 115, 32, 109, 101, 109, 101, 115, 46, 32, 87, 104, 97, 116, 39, 115, 32, 116, 104, 101, 32, 102, 117, 110, 110, 105, 101, 115, 116, 32, 111, 110, 101, 32, 121, 111, 117, 39, 118, 101, 32, 115, 101, 101, 110, 32, 114, 101, 99, 101, 110, 116, 108, 121, 63>>,
     <<77, 101, 109, 101, 115, 32, 97, 114, 101, 32, 116, 97, 107, 105, 110, 103, 32, 111, 118, 101, 114, 32, 99, 114, 121, 112, 116, 111, 32, 84, 119, 105, 116, 116, 101, 114, 46, 32, 87, 104, 97, 116, 39, 115, 32, 121, 111, 117, 114, 32, 116, 97, 107, 101, 32, 111, 110, 32, 105, 116, 63>>,
     <<87, 104, 97, 116, 39, 115, 32, 116, 104, 101, 32, 108, 97, 116, 101, 115, 116, 32, 99, 114, 121, 112, 116, 111, 32, 109, 101, 109, 101, 32, 116, 114, 101, 110, 100, 63, 32, 76, 101, 116, 39, 115, 32, 100, 105, 115, 99, 117, 115, 115, 33>> >>

\* temp.py:79-85, FALLBACK_PROMPTS["defi_update"]
Fallback_defi_update ==
  << <<87, 104, 97, 116, 39, 115, 32, 116, 104, 101, 32, 108, 97, 116, 101, 115, 116, 32, 100, 101, 118, 101, 108, 111, 112, 109, 101, 110, 116, 32, 105, 110, 32, 68, 101, 70, 105, 63, 32, 76, 101, 116, 39, 115, 32, 116, 97, 108, 107, 32, 97, 98, 111, 117, 116, 32, 105, 116, 33>>,
     <<68, 101, 70, 105, 32, 105, 115, 32, 99, 104, 97, 110, 103, 105, 110, 103, 32, 102, 105, 110, 97, 110, 99, 101, 46, 32, 87, 104, 97, 116, 39, 115, 32, 121, 111, 117, 114, 32, 102, 97, 118, 111, 114, 105, 116, 101, 32, 112, 108, 97, 116, 102, 111, 114, 109, 32, 97, 110, 100, 32, 119, 104, 121, 63>>,
     <<87, 104, 97, 116, 39, 115, 32, 116, 104, 101, 32, 109, 111, 115, 116, 32, 101, 120, 99, 105, 116, 105, 110, 103, 32, 68, 101, 70, 105, 32, 112, 114, 111, 106, 101, 99, 116, 32, 114, 105, 103, 104, 116, 32, 110, 111, 119, 63>>,
     <<68, 101, 70, 105, 32, 105, 115, 32, 116, 104, 101, 32, 102, 117, 116, 117, 114, 101, 46, 32, 87, 104, 97, 116, 39, 115, 32, 121, 111, 117, 114, 32, 102, 97, 118, 111, 114, 105, 116, 101, 32, 68, 101, 70, 105, 32, 112, 108, 97, 116, 102, 111, 114, 109, 63>>,
     <<87, 104, 97, 116, 39, 115, 32, 110, 101, 119, 32, 105, 110, 32, 116, 104, 101, 32, 119, 111, 114, 108, 100, 32, 111, 102, 32, 100, 101, 99, 101, 110, 116, 114, 97, 108, 105, 122, 101, 100, 32, 102, 105, 110, 97, 110, 99, 101, 63>> >>

\* temp.py:86-92, FALLBACK_PROMPTS["ai_development"]
Fallback_ai_development ==
  << <<65, 73, 32, 105, 115, 32, 114, 101, 118, 111, 108, 117, 116, 105, 111, 110, 105, 122, 105, 110, 103, 32, 99, 114, 121, 112, 116, 111, 46, 32, 87, 104, 97, 116, 39, 115, 32, 116, 104, 101, 32, 109, 111, 115, 116, 32, 101, 120, 99, 105, 116, 105, 110, 103, 32, 100, 101, 118, 101, 108, 111, 112, 109, 101, 110, 116, 63>>,
     <<87, 104, 97, 116, 39, 115, 32, 116, 104, 101, 32, 105, 109, 112, 97, 99, 116, 32, 111, 102, 32, 65, 73, 32, 111, 110, 32, 116, 104, 101, 32, 99, 114, 121, 112, 116, 111, 32, 109, 97, 114, 107, 101, 116, 63>>,
     <<65, 73, 32, 97, 110, 100, 32, 99, 114, 121, 112, 116, 111, 32, 97, 114, 101, 32, 97, 32, 112, 111, 119, 101, 114, 102, 117, 108, 32, 99, 111, 109, 98, 111, 46, 32, 87, 104, 97, 116, 39, 115, 32, 121, 111, 117, 114, 32, 102, 97, 118, 111, 114, 105, 116, 101, 32, 97, 112, 112, 108, 105, 99, 97, 116, 105, 111, 110, 63>>,
     <<72, 111, 119, 32, 105, 115, 32, 65, 73, 32, 99, 104, 97, 110, 103, 105, 110, 103, 32, 116, 104, 101, 32, 99, 114, 121, 112, 116, 111, 32, 108, 97, 110, 100, 115, 99, 97, 112, 101, 63>>,
     <<87, 104, 97, 116, 39, 115, 32, 116, 104, 101, 32, 108, 97, 116, 101, 115, 116, 32, 65, 73, 32, 116, 111, 111, 108, 32, 105, 110, 32, 99, 114, 121, 112, 116, 111, 32, 121, 111, 117, 32, 99, 97, 110, 39, 116, 32, 108, 105, 118, 101, 32, 119, 105, 116, 104, 111, 117, 116, 63>> >>

\* temp.py:93-99, FALLBACK_PROMPTS["general_crypto"]
Fallback_general_crypto ==
  << <<87, 104, 97, 116, 39, 115, 32, 121, 111, 117, 114, 32, 102, 97, 118, 111, 114, 105, 116, 101, 32, 99, 114, 121, 112, 116, 111, 99, 117, 114, 114, 101, 110, 99, 121, 32, 97, 110, 100, 32, 119, 104, 121, 63>>,
     <<87, 104, 97, 116, 39, 115, 32, 116, 104, 101, 32, 109, 111, 115, 116, 32, 105, 110, 116, 101, 114, 101, 115, 116, 105, 110, 103, 32, 116, 104, 105, 110, 103, 32, 97, 98, 111, 117, 116, 32, 99, 114, 121, 112, 116, 111, 32, 116, 111, 100, 97, 121, 63>>,
     <<87, 104, 97, 116, 39, 115, 32, 121, 111, 117, 114, 32, 116, 97, 107, 101, 32, 111, 110, 32, 116, 104, 101, 32, 99, 117, 114, 114, 101, 110, 116, 32, 99, 114, 121, 112, 116, 111, 32, 109, 97, 114, 107, 101, 116, 63>>,
     <<87, 104, 97, 116, 39, 115, 32, 116, 104, 101, 32, 98, 101, 115, 116, 32, 116, 104, 105, 110, 103, 32, 97, 98, 111, 117, 116, 32, 99, 114, 121, 112, 116, 111, 63>>,
     <<87, 104, 97, 116, 39, 115, 32, 116, 104, 101, 32, 109, 111, 115, 116, 32, 115, 117, 114, 112, 114, 105, 115, 105, 110, 103, 32, 116, 104, 105, 110, 103, 32, 97, 98, 111, 117, 116, 32, 99, 114, 121, 112, 116, 111, 32, 105, 110, 32, 50, 48, 50, 51, 63>> >>

\* app.py:169
DefaultFedjaPrompt ==
  <<68, 101, 102, 97, 117, 108, 116, 32, 36, 70, 69, 68, 74, 65, 32, 112, 114, 111, 109, 112, 116, 46>>

\* app.py:171
DefaultGeneralPrompt ==
  <<68, 101, 102, 97, 117, 108, 116, 32, 103, 101, 110, 101, 114, 97, 108, 32, 99, 114, 121, 112, 116, 111, 32, 112, 114, 111, 109, 112, 116, 46>>

\* app.py:173
DefaultPrompt ==
  <<68, 101, 102, 97, 117, 108, 116, 32, 112, 114, 111, 109, 112, 116, 46>>

\* twitter_bot.py:308, the literal before the analysis, 29 characters
AnalysisPrefix ==
  <<240, 376, 8220, 352, 32, 67, 114, 121, 112, 116, 111, 32, 84, 114, 101, 110, 100, 32, 65, 110, 97, 108, 121, 115, 105, 115, 58, 10, 10>>

\* app.py:93, temp.py:118, the keyword list
KEYWORDS ==
  << <<109, 101, 109, 101, 99, 111, 105, 110>>,
     <<100, 101, 102, 105>>,
     <<97, 105>>,
     <<100, 101, 102, 105, 97, 105>>,
     <<98, 116, 99>>,
     <<101, 116, 104>>,
     <<115, 111, 108, 97, 110, 97>> >>
\* titles a news response may carry
TitleDog == <<68, 111, 103, 32, 100, 97, 121, 115>>
TitleBtc == <<66, 84, 67, 32, 117, 112>>
TitleAi == <<65, 73>>
TitleSaid == <<70, 101, 100, 32, 115, 97, 105, 100, 32, 110, 111>>
\* "ETH 1", "ETH 2", ...
TitleEth(i) == <<69, 116, 104, 32>> \o <<48 + i>>
(***************************************************************************)
(* Bounds of the model                                                     *)
(***************************************************************************)
\* wall-clock second at which the module is loaded (time.time() at import)
StartTime == 1000
\* scheduler iterations explored, app.py and temp.py
MaxCycles == 1
\* length of a short provider text
ShortLen == 3
\* how far an over-long provider text exceeds a limit
ExtraLen == 1
\* scheduler iterations explored, twitter_bot.py: with every action, with
\* regular tweets only, with meme tweets only
MaxBotCycles == 1
MaxLimiterCycles == 4
MaxTopicCycles == 3
\* total_tokens of a small and of a large completion
FewTokens == 100
ManyTokens == 20000
\* seconds a Retry-After header asks for
RetryAfterHint == 5
\* seconds until the reset an X-RateLimit-Reset header announces
ResetIn == 3
\* requests an X-RateLimit-Remaining header reports when it is not 0
HeaderRemaining == 2
\* requests of one fetch_deepseek_response that may be answered with HTTP 429
MaxDeepseekRequests == 2
\* full chunks in the longest text handed to chunk_text
MaxChunks == 2

(***************************************************************************)
(* Texts                                                                   *)
(***************************************************************************)
Min(S) == CHOOSE x \in S : \A y \in S : x <= y
Max(S) == CHOOSE x \in S : \A y \in S : x >= y

\* Python's len()
len(s) == Len(s)

\* the characters str.strip() removes: \t \n \v \f \r and space
WHITESPACE == {9, 10, 11, 12, 13, 32}

\* str.strip(): what lies between the first and the last character that is
\* not whitespace
strip(s) ==
  IF \A i \in 1..Len(s) : s[i] \in WHITESPACE
    THEN <<>>
    ELSE LET first == CHOOSE i \in 1..Len(s) :
                        /\ s[i] \notin WHITESPACE
                        /\ \A j \in 1..(i - 1) : s[j] \in WHITESPACE
             tail == CHOOSE n \in 0..Len(s) :
                       /\ s[Len(s) - n] \notin WHITESPACE
                       /\ \A j \in (Len(s) - n + 1)..Len(s) : s[j] \in WHITESPACE
         IN  SubSeq(s, first, Len(s) - tail)

\* str.lower() on the ASCII letters
lower(s) == [i \in 1..Len(s) |-> IF s[i] \in 65..90 THEN s[i] + 32 ELSE s[i]]

\* Python's s[:n]
SlicePrefix(s, n) ==
  IF n >= 0
    THEN SubSeq(s, 1, IF n < Len(s) THEN n ELSE Len(s))
    ELSE SubSeq(s, 1, IF Len(s) + n > 0 THEN Len(s) + n ELSE 0)

\* Python's `k in s` on strings
Contains(s, k) == \E i \in 0..(Len(s) - Len(k)) : SubSeq(s, i + 1, i + Len(k)) = k

EndsWith(s, suf) ==
  /\ Len(s) >= Len(suf)
  /\ SubSeq(s, Len(s) - Len(suf) + 1, Len(s)) = suf

Range(f) == {f[i] : i \in DOMAIN f}

\* a provider text of n lowercase letters, the i-th one depending on i
Letters(n) == [i \in 1..n |-> 97 + (i % 26)]

\* optional values: Python's None and a returned text
None == [ok |-> FALSE, text |-> <<>>]
Some(t) == [ok |-> TRUE, text |-> t]
\* Python's truth test of an optional text: None and "" are false
Truthy(x) == x.ok /\ x.text # <<>>

\* no chat completion has been asked for yet
NoResponse == [kind |-> "none", content |-> <<>>, total_tokens |-> 0]

(***************************************************************************)
(* What the outside world may answer                                       *)
(***************************************************************************)
\* message.content of a completion, before the caller strips it
RawContents ==
  { <<>>,
    <<32, 10>>,
    <<32>> \o Letters(ShortLen) \o <<10>>,
    Letters(TWEET_LIMIT),
    Letters(TWEET_LIMIT + ExtraLen),
    Letters(CHUNK_SIZE + ExtraLen) }

\* a generation request either raises or yields a content
ProviderOutcomes ==
  {[raised |-> TRUE, content |-> <<>>]}
    \cup {[raised |-> FALSE, content |-> c] : c \in RawContents}

\* a prompt file on disk: missing, or its lines as read (newline included)
PromptFiles ==
  { [exists |-> FALSE, lines |-> <<>>],
    [exists |-> TRUE, lines |-> <<>>],
    [exists |-> TRUE, lines |-> << <<10>>, <<32>> \o Letters(ShortLen) \o <<32, 10>> >>],
    [exists |-> TRUE, lines |-> << Letters(TWEET_LIMIT + ExtraLen) \o <<10>> >>] }

\* what select_random_image may return: None, or a path under images/
ImagePaths == {"None", "images/fedja.png"}

(***************************************************************************)
(* State                                                                   *)
(***************************************************************************)
VARIABLES
  variant,                 \* which program runs: "app", "temp" or "bot"
  environ,                 \* os.environ: what each credential is set to
  pc,                      \* position of the scheduler thread
  now,                     \* time.time(), whole seconds
  cycles,                  \* iterations of run_bot's loop started
  action,                  \* run_bot's action
  category,                \* generate_and_post_tweet's category
  FEDJA_PROMPTS,           \* app.py:79
  GENERAL_CRYPTO_PROMPTS,  \* app.py:80
  DEEPSEEK_RATE_LIMIT,     \* temp.py:65, twitter_bot.py:71
  topics,                  \* post_regular_tweet's topics / run_bot's trending_topics
  news,                    \* the news response the last fetch received
  detailed_text,           \* generate_and_post_tweet's local
  chunks,                  \* summarize_text: chunks not yet summarized
  summaries,               \* summarize_text's local
  summarized_text,         \* result of summarize_text / of the direct call
  generated,               \* final_tweet before a reference is appended
  fedja_reference,         \* the reference appended, None if none was
  final_tweet,             \* generate_and_post_tweet's local
  image_path,              \* image handed to post_tweet
  handed,                  \* the text post_tweet / create_tweet was called with
  upload_calls,            \* media uploads made in this cycle
  create_calls,            \* post-create calls made in this cycle
  post_result,             \* what post_tweet returned
  media,                   \* the handle the last media upload returned
  media_ids,               \* the media_ids the last post-create call was given
  post_tweet_calls,        \* calls of post_tweet made in this cycle
  gen_calls,               \* provider calls made by the running generate_and_post_tweet
  gen_failed,              \* how many of them raised or returned no text
  OPENAI_RATE_LIMITS,      \* twitter_bot.py:65
  TWITTER_RATE_LIMITS,     \* twitter_bot.py:59
  last_trending_time,      \* twitter_bot.py:77
  cached_trending_topics,  \* twitter_bot.py:78
  model,                   \* call_openai_with_backoff's model
  retries,                 \* call_openai_with_backoff's retries
  reply,                   \* what the last provider call of run_bot returned
  response,                \* the chat completion the last OpenAI attempt received
  ds_requests,             \* requests made by the running fetch_deepseek_response
  sleep_time,              \* the sleeps of the last check_openai_rate_limit
  last_fetch               \* the last fetch_trending_topics: its kind, time and result

genVars ==
  <<detailed_text, chunks, summaries, summarized_text, generated,
    fedja_reference, final_tweet, image_path, gen_calls, gen_failed>>
postVars ==
  <<handed, upload_calls, create_calls, post_result, media, media_ids,
    post_tweet_calls>>
promptVars == <<FEDJA_PROMPTS, GENERAL_CRYPTO_PROMPTS>>
botVars ==
  <<OPENAI_RATE_LIMITS, TWITTER_RATE_LIMITS, last_trending_time,
    cached_trending_topics, model, retries, reply, response, ds_requests,
    sleep_time, last_fetch>>

(***************************************************************************)
(* Pure functions of app.py and temp.py                                    *)
(***************************************************************************)
\* load_prompts: the stripped non-blank lines, [] when the file cannot be read
load_prompts(file) ==
  IF ~file.exists
    THEN <<>>
    ELSE LET stripped == [i \in DOMAIN file.lines |-> strip(file.lines[i])]
         IN  SelectSeq(stripped, LAMBDA l : l # <<>>)

\* call_openai: the stripped content, None when the request raised
call_openai(outcome) ==
  IF outcome.raised THEN None ELSE Some(strip(outcome.content))

\* Python's range(start, stop, step) with a positive step, as a list
RECURSIVE range(_, _, _)
range(start, stop, step) ==
  IF start >= stop THEN <<>> ELSE <<start>> \o range(start + step, stop, step)

\* Python's s[i:j] for 0 <= i <= j: the end is clamped to len(s)
Slice(s, i, j) == SubSeq(s, i + 1, IF j < Len(s) THEN j ELSE Len(s))

\* chunk_text that keeps the full chunks only: the starts stop where a whole
\* chunk no longer fits
chunk_text_full_only(text, chunk_size) ==
  LET starts == range(0, len(text) - chunk_size + 1, chunk_size)
  IN  [k \in DOMAIN starts |-> Slice(text, starts[k], starts[k] + chunk_size)]

\* chunk_text: text[i:i + chunk_size] for i in range(0, len(text), chunk_size)
chunk_text(text, chunk_size) ==
  LET starts == range(0, len(text), chunk_size)
  IN  [k \in DOMAIN starts |-> Slice(text, starts[k], starts[k] + chunk_size)]

\* sep.join(parts)
RECURSIVE Join(_, _)
Join(parts, sep) ==
  IF parts = <<>> THEN <<>>
  ELSE IF Len(parts) = 1 THEN parts[1]
  ELSE parts[1] \o sep \o Join(Tail(parts), sep)

\* summarize_text (app.py) joining the summaries with nothing between them
combine_summaries_unspaced(sums) ==
  LET combined == Join(sums, <<>>)
      cut == IF Len(combined) > TWEET_LIMIT
               THEN SlicePrefix(combined, TWEET_LIMIT) ELSE combined
  IN  IF cut = <<>> THEN None ELSE Some(cut)

\* summarize_text (app.py) after its loop: join, cut to the limit, None if empty
combine_summaries(sums) ==
  LET combined == Join(sums, <<32>>)
      cut == IF Len(combined) > TWEET_LIMIT
               THEN SlicePrefix(combined, TWEET_LIMIT) ELSE combined
  IN  IF cut = <<>> THEN None ELSE Some(cut)

\* summarize_text (temp.py): the one summary, None if empty or over the limit
summarize_text_temp(r) ==
  IF ~Truthy(r) \/ Len(r.text) > TWEET_LIMIT THEN None ELSE r

\* get_fallback_prompt with an empty default: an empty prompt list yields the
\* empty text instead of the built-in sentence
get_fallback_prompt_blank(cat, fedja_prompts, general_prompts) ==
  IF cat = "fedja"
    THEN (IF fedja_prompts # <<>> THEN Range(fedja_prompts) ELSE {<<>>})
  ELSE IF cat = "general_crypto"
    THEN (IF general_prompts # <<>> THEN Range(general_prompts) ELSE {<<>>})
  ELSE {<<>>}

\* get_fallback_prompt: the values random.choice may return for a category
get_fallback_prompt(cat, fedja_prompts, general_prompts) ==
  IF cat = "fedja"
    THEN (IF fedja_prompts # <<>> THEN Range(fedja_prompts) ELSE {DefaultFedjaPrompt})
  ELSE IF cat = "general_crypto"
    THEN (IF general_prompts # <<>> THEN Range(general_prompts) ELSE {DefaultGeneralPrompt})
  ELSE {DefaultPrompt}

\* temp.py: FALLBACK_PROMPTS
FALLBACK_PROMPTS ==
  [c \in {"crypto_meme", "defi_update", "ai_development", "general_crypto"} |->
     CASE c = "crypto_meme" -> Fallback_crypto_meme
       [] c = "defi_update" -> Fallback_defi_update
       [] c = "ai_development" -> Fallback_ai_development
       [] OTHER -> Fallback_general_crypto]

\* settle_final_tweet without its last stage: the second fallback prompt is
\* kept whatever its length
settle_final_tweet_two_stage(summarized, fb1, fb2, short) ==
  LET f0 == IF ~Truthy(summarized) THEN fb1 ELSE summarized.text
  IN  IF Len(f0) > TWEET_LIMIT THEN fb2 ELSE f0

\* the stages that settle final_tweet before a reference is appended:
\* the summary or a fallback, a second fallback if over the limit, then a
\* short fallback if still over the limit
settle_final_tweet(summarized, fb1, fb2, short) ==
  LET f0 == IF ~Truthy(summarized) THEN fb1 ELSE summarized.text
      f1 == IF Len(f0) > TWEET_LIMIT THEN fb2 ELSE f0
  IN  IF Len(f1) > TWEET_LIMIT THEN short ELSE f1

\* every value the stages may settle on, given the pools random.choice draws from
SettledTweets(summarized, fallbacks, shorts) ==
  {settle_final_tweet(summarized, fb1, fb2, short) :
     fb1 \in fallbacks, fb2 \in fallbacks, short \in shorts}

\* the two references of app.py and of temp.py (contract, twitter)
AppReferences ==
  { AppContractPrefix \o FEDJA_CONTRACT_ADDRESS \o AppContractTail,
    AppTwitterPrefix \o FEDJA_TWITTER_TAG \o AppTwitterTail }
TempReferences ==
  { TempReferencePrefix \o FEDJA_CONTRACT_ADDRESS \o TempReferenceTail,
    TempReferencePrefix \o FEDJA_TWITTER \o TempReferenceTail }

\* append_reference cutting after the concatenation instead of before it
append_reference_cut_after(tweet, ref) ==
  SlicePrefix(tweet \o ref, TWEET_LIMIT)

\* appending the reference: whole if it fits, else the tweet is cut to make room
append_reference(tweet, ref) ==
  IF Len(tweet) + Len(ref) <= TWEET_LIMIT
    THEN tweet \o ref
    ELSE SlicePrefix(tweet, TWEET_LIMIT - Len(ref)) \o ref

\* call_deepseek / fetch_deepseek_response: the sleep before the request
deepseek_sleep(t, rl) ==
  IF t - rl.last_request_time < rl.retry_after
    THEN rl.retry_after - (t - rl.last_request_time)
    ELSE 0

(***************************************************************************)
(* The news source                                                         *)
(***************************************************************************)
Item(t) == [has_title |-> TRUE, title |-> t]
Untitled == [has_title |-> FALSE, title |-> <<>>]

\* the "results" lists a response may carry
ResultLists ==
  { <<>>,
    <<Item(TitleDog)>>,
    <<Item(TitleDog), Item(TitleBtc), Item(TitleAi), Item(TitleSaid)>>,
    <<Item(TitleAi), Untitled>>,
    <<Item(TitleEth(1)), Item(TitleDog)>>
      \o [i \in 1..MAX_TOPICS |-> Item(TitleEth(i + 1))] }

\* the request fails (network, HTTP status, unparsable body), or a JSON object
\* comes back, with or without a "results" field
NewsResponses ==
  { [status |-> "error", has_results |-> FALSE, results |-> <<>>],
    [status |-> "ok", has_results |-> FALSE, results |-> <<>>] }
    \cup {[status |-> "ok", has_results |-> TRUE, results |-> l] : l \in ResultLists}

\* the filter of fetch_cryptopanic_topics: a keyword occurs in the lowered title
relevant(title) == \E k \in Range(KEYWORDS) : Contains(lower(title), k)

\* fetch_cryptopanic_topics without the [:5] slice
fetch_cryptopanic_topics_unsliced(resp) ==
  IF resp.status = "error" THEN <<>>
  ELSE LET results == IF resp.has_results THEN resp.results ELSE <<>>
       IN  IF \E i \in DOMAIN results : ~results[i].has_title THEN <<>>
           ELSE SelectSeq([i \in DOMAIN results |-> results[i].title], relevant)

\* fetch_cryptopanic_topics (app.py, and the same text in temp.py): the first
\* MAX_TOPICS relevant titles; [] when anything raises, and item["title"]
\* raises on an item without a title
fetch_cryptopanic_topics(resp) ==
  IF resp.status = "error" THEN <<>>
  ELSE LET results == IF resp.has_results THEN resp.results ELSE <<>>
       IN  IF \E i \in DOMAIN results : ~results[i].has_title THEN <<>>
           ELSE LET titles == [i \in DOMAIN results |-> results[i].title]
                IN  SlicePrefix(SelectSeq(titles, relevant), MAX_TOPICS)

(***************************************************************************)
(* twitter_bot.py: rate limits and the topic cache                         *)
(***************************************************************************)
\* the models OPENAI_RATE_LIMITS tracks
Models == {"gpt-3.5-turbo", "gpt-4o-mini"}

\* twitter_bot.py:65-68 at import time t
InitialOpenAILimits(t) ==
  [m \in Models |->
     [tpm |-> IF m = "gpt-3.5-turbo" THEN TPM_GPT35 ELSE TPM_GPT4O_MINI,
      rpm |-> IF m = "gpt-3.5-turbo" THEN RPM_GPT35 ELSE RPM_GPT4O_MINI,
      tokens_used |-> 0, requests_used |-> 0, last_reset |-> t]]

\* twitter_bot.py:59-62 at import time t
InitialTwitterLimits(t) ==
  [tweets |-> [daily_limit |-> DAILY_LIMIT, remaining |-> DAILY_LIMIT, reset_time |-> 0],
   requests |-> [window |-> TWITTER_WINDOW, limit |-> TWITTER_REQUEST_LIMIT,
                 remaining |-> TWITTER_REQUEST_LIMIT, reset_time |-> t]]

\* a usage record with its window restarted at time t
Restarted(usage, t) ==
  [usage EXCEPT !.tokens_used = 0, !.requests_used = 0, !.last_reset = t]

\* check_openai_rate_limit that sleeps on the request limit but keeps the
\* counters of the window it slept out
check_openai_rate_limit_no_reset(usage, t) ==
  LET u1 == IF t - usage.last_reset >= WINDOW_SECONDS THEN Restarted(usage, t) ELSE usage
      tok == u1.tokens_used >= u1.tpm
      s1 == WINDOW_SECONDS - (t - u1.last_reset)
      t1 == IF tok THEN t + s1 ELSE t
      u2 == IF tok THEN Restarted(u1, t1) ELSE u1
      req == u2.requests_used >= u2.rpm
      s2 == WINDOW_SECONDS - (t - u2.last_reset)
      t2 == IF req THEN t1 + s2 ELSE t1
  IN  [usage |-> u2, now |-> t2,
       sleeps |-> (IF tok THEN <<[limit |-> "tokens", seconds |-> s1]>> ELSE <<>>)
                    \o (IF req THEN <<[limit |-> "requests", seconds |-> s2]>> ELSE <<>>)]

\* check_openai_rate_limit testing the request counter with > in place of >=
check_openai_rate_limit_strict(usage, t) ==
  LET u1 == IF t - usage.last_reset >= WINDOW_SECONDS THEN Restarted(usage, t) ELSE usage
      tok == u1.tokens_used >= u1.tpm
      s1 == WINDOW_SECONDS - (t - u1.last_reset)
      t1 == IF tok THEN t + s1 ELSE t
      u2 == IF tok THEN Restarted(u1, t1) ELSE u1
      req == u2.requests_used > u2.rpm
      s2 == WINDOW_SECONDS - (t - u2.last_reset)
      t2 == IF req THEN t1 + s2 ELSE t1
      u3 == IF req THEN Restarted(u2, t2) ELSE u2
  IN  [usage |-> u3, now |-> t2,
       sleeps |-> (IF tok THEN <<[limit |-> "tokens", seconds |-> s1]>> ELSE <<>>)
                    \o (IF req THEN <<[limit |-> "requests", seconds |-> s2]>> ELSE <<>>)]

\* check_openai_rate_limit that starts the new window of an expired record
\* without clearing tokens_used
check_openai_rate_limit_keeps_tokens(usage, t) ==
  LET u1 == IF t - usage.last_reset >= WINDOW_SECONDS
              THEN [usage EXCEPT !.requests_used = 0, !.last_reset = t] ELSE usage
      tok == u1.tokens_used >= u1.tpm
      s1 == WINDOW_SECONDS - (t - u1.last_reset)
      t1 == IF tok THEN t + s1 ELSE t
      u2 == IF tok THEN Restarted(u1, t1) ELSE u1
      req == u2.requests_used >= u2.rpm
      s2 == WINDOW_SECONDS - (t - u2.last_reset)
      t2 == IF req THEN t1 + s2 ELSE t1
      u3 == IF req THEN Restarted(u2, t2) ELSE u2
  IN  [usage |-> u3, now |-> t2,
       sleeps |-> (IF tok THEN <<[limit |-> "tokens", seconds |-> s1]>> ELSE <<>>)
                    \o (IF req THEN <<[limit |-> "requests", seconds |-> s2]>> ELSE <<>>)]

\* check_openai_rate_limit at clock t: the usage record it leaves, the clock
\* when it returns, and the sleeps it made. current_time is read once, so the
\* second sleep is computed from the clock as it was on entry
check_openai_rate_limit(usage, t) ==
  LET u1 == IF t - usage.last_reset >= WINDOW_SECONDS THEN Restarted(usage, t) ELSE usage
      tok == u1.tokens_used >= u1.tpm
      s1 == WINDOW_SECONDS - (t - u1.last_reset)
      t1 == IF tok THEN t + s1 ELSE t
      u2 == IF tok THEN Restarted(u1, t1) ELSE u1
      req == u2.requests_used >= u2.rpm
      s2 == WINDOW_SECONDS - (t - u2.last_reset)
      t2 == IF req THEN t1 + s2 ELSE t1
      u3 == IF req THEN Restarted(u2, t2) ELSE u2
  IN  [usage |-> u3, now |-> t2,
       sleeps |-> (IF tok THEN <<[limit |-> "tokens", seconds |-> s1]>> ELSE <<>>)
                    \o (IF req THEN <<[limit |-> "requests", seconds |-> s2]>> ELSE <<>>)]

\* check_twitter_rate_limit at clock t: the limits it leaves and the clock when
\* it returns
check_twitter_rate_limit(limits, t) ==
  LET tw == limits.tweets
      tw1 == IF t >= tw.reset_time
               THEN [tw EXCEPT !.remaining = tw.daily_limit, !.reset_time = t + DAY_SECONDS]
               ELSE tw
      out == tw1.remaining <= 0
      ta == IF out THEN t + (tw1.reset_time - t) ELSE t
      tw2 == IF out
               THEN [tw1 EXCEPT !.remaining = tw1.daily_limit, !.reset_time = ta + DAY_SECONDS]
               ELSE tw1
      rq == limits.requests
      rq1 == IF t - rq.reset_time >= rq.window
               THEN [rq EXCEPT !.remaining = rq.limit, !.reset_time = t]
               ELSE rq
      dry == rq1.remaining <= 0
      tb == IF dry THEN ta + (rq1.window - (t - rq1.reset_time)) ELSE ta
      rq2 == IF dry THEN [rq1 EXCEPT !.remaining = rq1.limit, !.reset_time = tb] ELSE rq1
  IN  [limits |-> [tweets |-> tw2, requests |-> rq2], now |-> tb]

\* twitter_bot.py:213: the first MAX_TOPICS titles of the items that have one
trending_titles(results) ==
  LET titled == SelectSeq(results, LAMBDA item : item.has_title)
  IN  SlicePrefix([i \in DOMAIN titled |-> titled[i].title], MAX_TOPICS)

\* fetch_trending_topics whose assignment to last_trending_time stays local:
\* the cache is replaced but its time is never advanced
fetch_trending_topics_unstamped(cached, last, t, resp) ==
  IF t - last < CACHE_TTL
    THEN [requested |-> FALSE, result |-> cached, cached |-> cached, last |-> last]
  ELSE IF resp.status = "ok" /\ resp.has_results
    THEN [requested |-> TRUE, result |-> trending_titles(resp.results),
          cached |-> trending_titles(resp.results), last |-> last]
  ELSE [requested |-> TRUE, result |-> <<>>, cached |-> cached, last |-> last]

\* fetch_trending_topics that empties the cache when the request fails
fetch_trending_topics_clearing(cached, last, t, resp) ==
  IF t - last < CACHE_TTL
    THEN [requested |-> FALSE, result |-> cached, cached |-> cached, last |-> last]
  ELSE IF resp.status = "ok" /\ resp.has_results
    THEN [requested |-> TRUE, result |-> trending_titles(resp.results),
          cached |-> trending_titles(resp.results), last |-> t]
  ELSE [requested |-> TRUE, result |-> <<>>, cached |-> <<>>, last |-> last]

\* fetch_trending_topics at clock t, given the cache, its time and the answer
\* a request would get: a fresh cache is returned as it is; otherwise one
\* request is made, and only an answer with a "results" field replaces the
\* cache and its time; anything else returns []
fetch_trending_topics(cached, last, t, resp) ==
  IF t - last < CACHE_TTL
    THEN [requested |-> FALSE, result |-> cached, cached |-> cached, last |-> last]
  ELSE IF resp.status = "ok" /\ resp.has_results
    THEN [requested |-> TRUE, result |-> trending_titles(resp.results),
          cached |-> trending_titles(resp.results), last |-> t]
  ELSE [requested |-> TRUE, result |-> <<>>, cached |-> cached, last |-> last]

(***************************************************************************)
(* Initial state                                                           *)
(***************************************************************************)
NoNews == [status |-> "none", has_results |-> FALSE, results |-> <<>>]

\* the locals other than the text being worked on
NoOtherLocals ==
  /\ topics = <<>>
  /\ news = NoNews
  /\ chunks = <<>>
  /\ summaries = <<>>
  /\ summarized_text = None
  /\ generated = <<>>
  /\ fedja_reference = None
  /\ final_tweet = <<>>
  /\ image_path = "None"
  /\ gen_calls = 0
  /\ gen_failed = 0
  /\ handed = None
  /\ upload_calls = 0
  /\ create_calls = 0
  /\ post_result = "not called"
  /\ media = "None"
  /\ media_ids = <<>>
  /\ post_tweet_calls = 0

NoLocals ==
  /\ detailed_text = <<>>
  /\ NoOtherLocals

\* a new iteration starts with fresh locals
ResetLocals ==
  /\ topics' = <<>>
  /\ news' = NoNews
  /\ detailed_text' = <<>>
  /\ chunks' = <<>>
  /\ summaries' = <<>>
  /\ summarized_text' = None
  /\ generated' = <<>>
  /\ fedja_reference' = None
  /\ final_tweet' = <<>>
  /\ image_path' = "None"
  /\ gen_calls' = 0
  /\ gen_failed' = 0
  /\ handed' = None
  /\ upload_calls' = 0
  /\ create_calls' = 0
  /\ post_result' = "not called"
  /\ media' = "None"
  /\ media_ids' = <<>>
  /\ post_tweet_calls' = 0

\* app.py:30-35, temp.py:30-35, twitter_bot.py:30-36: the credentials read
\* with os.getenv
Credentials ==
  {"TWITTER_API_KEY", "TWITTER_API_SECRET_KEY", "TWITTER_ACCESS_TOKEN",
   "TWITTER_ACCESS_TOKEN_SECRET", "DEEPSEEK_API_KEY", "OPENAI_API_KEY",
   "CRYPTOPANIC_API_KEY"}

\* what os.getenv may give: None, the empty string, or a non-empty string
EnvValues == {"absent", "empty", "set"}

\* app.py:43, temp.py:43, twitter_bot.py:39: the credentials each program
\* lists in its test
RequiredCredentials(v) ==
  CASE v = "app" -> Credentials \ {"DEEPSEEK_API_KEY"}
    [] v = "temp" -> Credentials \ {"OPENAI_API_KEY"}
    [] OTHER -> Credentials

\* the test that lets through every credential that is not None
credentials_valid_not_none(env, v) ==
  \A c \in RequiredCredentials(v) : env[c] # "absent"

\* all([...]) over the listed credentials: None and "" are both false
credentials_valid(env, v) ==
  \A c \in RequiredCredentials(v) : env[c] = "set"

\* the module globals as the import leaves them
ImportedGlobals(openai_limits, twitter_limits) ==
  /\ variant \in {"app", "temp", "bot"}
  /\ now = StartTime
  /\ cycles = 0
  /\ action = "none"
  /\ category = "none"
  /\ IF variant = "app"
       THEN \E f \in PromptFiles :
              /\ FEDJA_PROMPTS = load_prompts(f)
              /\ GENERAL_CRYPTO_PROMPTS = load_prompts(f)
       ELSE FEDJA_PROMPTS = <<>> /\ GENERAL_CRYPTO_PROMPTS = <<>>
  /\ DEEPSEEK_RATE_LIMIT = [last_request_time |-> 0, retry_after |-> 1]
  /\ OPENAI_RATE_LIMITS = openai_limits
  /\ TWITTER_RATE_LIMITS = twitter_limits
  /\ last_trending_time = 0
  /\ cached_trending_topics = <<>>
  /\ model = "gpt-3.5-turbo"
  /\ retries = 0
  /\ reply = None
  /\ response = NoResponse
  /\ ds_requests = 0
  /\ sleep_time = <<>>
  /\ last_fetch = [kind |-> "none", time |-> 0, result |-> <<>>,
                   ok_time |-> -1, ok_result |-> <<>>]

\* the module globals as the import leaves them and no function entered,
\* whatever the position and the environment
Imported(openai_limits, twitter_limits) ==
  /\ ImportedGlobals(openai_limits, twitter_limits)
  /\ NoLocals

\* the program once the import has succeeded and run_bot has been entered
InitWith(openai_limits, twitter_limits) ==
  /\ Imported(openai_limits, twitter_limits)
  /\ environ = [c \in Credentials |-> "set"]
  /\ pc = "select"

\* the state after import: the limit records are the literals of the code
Init == InitWith(InitialOpenAILimits(StartTime), InitialTwitterLimits(StartTime))

(***************************************************************************)
(* Startup                                                                 *)
(***************************************************************************)
\* the process as it starts: the environment is whatever it is, nothing has
\* run yet
InitStartup ==
  /\ Imported(InitialOpenAILimits(StartTime), InitialTwitterLimits(StartTime))
  /\ environ \in [Credentials -> EnvValues]
  /\ pc = "import"

\* app.py:43-45, temp.py:43-45, twitter_bot.py:39-41: the import raises
\* ValueError unless every listed credential is set
ValidateCredentials ==
  /\ pc = "import"
  /\ pc' = IF credentials_valid(environ, variant) THEN "clients" ELSE "raised"
  /\ UNCHANGED <<variant, environ, now, cycles, action, category, promptVars,
                 DEEPSEEK_RATE_LIMIT, topics, news, genVars, postVars, botVars>>

\* app.py:48-62, temp.py:48-62, twitter_bot.py:44-83: the platform clients are
\* built; twitter_bot.py then raises FileNotFoundError when the images folder
\* is missing
BuildClients ==
  /\ pc = "clients"
  /\ \E images_folder \in BOOLEAN :
       pc' = IF variant = "bot" /\ ~images_folder THEN "raised" ELSE "main"
  /\ UNCHANGED <<variant, environ, now, cycles, action, category, promptVars,
                 DEEPSEEK_RATE_LIMIT, topics, news, genVars, postVars, botVars>>

\* app.py:325-327, temp.py:310-312, twitter_bot.py:315-318: the liveness thread
\* is started and run_bot is entered
Main ==
  /\ pc = "main"
  /\ pc' = "select"
  /\ UNCHANGED <<variant, environ, now, cycles, action, category, promptVars,
                 DEEPSEEK_RATE_LIMIT, topics, news, genVars, postVars, botVars>>

(***************************************************************************)
(* chunk_text of app.py on its own                                         *)
(***************************************************************************)
\* the texts handed to chunk_text: one of every length from the empty text
\* to MaxChunks full chunks and ExtraLen characters more
ChunkInputs == {Letters(n) : n \in 0..(MaxChunks * CHUNK_SIZE + ExtraLen)}

\* summarize_text of app.py has been entered with some text, nothing else
\* has run
InitChunkText ==
  /\ ImportedGlobals(InitialOpenAILimits(StartTime), InitialTwitterLimits(StartTime))
  /\ variant = "app"
  /\ NoOtherLocals
  /\ detailed_text \in ChunkInputs
  /\ environ = [c \in Credentials |-> "set"]
  /\ pc = "chunk_text"

\* app.py:127: chunks = chunk_text(text), with the default chunk_size
ChunkText ==
  /\ pc = "chunk_text"
  /\ chunks' = chunk_text(detailed_text, CHUNK_SIZE)
  /\ pc' = "chunked"
  /\ UNCHANGED <<variant, environ, now, cycles, action, category, promptVars,
                 DEEPSEEK_RATE_LIMIT, topics, news, detailed_text, summaries,
                 summarized_text, generated, fedja_reference, final_tweet,
                 image_path, gen_calls, gen_failed, postVars, botVars>>

(***************************************************************************)
(* run_bot of app.py and temp.py                                           *)
(***************************************************************************)
\* app.py:310-313, temp.py:291-294: the actions run_bot draws from
Actions(v) ==
  IF v = "app" THEN {"fedja_tweet", "regular_tweet"}
  ELSE {"fedja_tweet", "regular_tweet", "meme_tweet"}

\* the sleep that follows an action
SleepSeconds(a) ==
  CASE a = "fedja_tweet" -> SLEEP_FEDJA
    [] a = "regular_tweet" -> SLEEP_REGULAR
    [] a = "meme_tweet" -> SLEEP_MEME
    [] OTHER -> SLEEP_ANALYSIS

\* run_bot draws an action; the locals of the previous iteration are gone
RunBotSelect ==
  /\ variant \in {"app", "temp", "bot"}
  /\ pc = "select"
  /\ cycles < MaxCycles
  /\ \E a \in Actions(variant) :
       /\ action' = a
       /\ pc' = CASE a = "fedja_tweet" -> "post_fedja_tweet"
                  [] a = "regular_tweet" -> "post_regular_tweet"
                  [] OTHER -> "post_meme_tweet"
  /\ cycles' = cycles + 1
  /\ category' = "none"
  /\ ResetLocals
  /\ UNCHANGED <<botVars, variant, now, promptVars, environ, DEEPSEEK_RATE_LIMIT>>

\* app.py post_fedja_tweet: the image only picks the prompt's hashtag
AppPostFedjaTweet ==
  /\ variant = "app"
  /\ pc = "post_fedja_tweet"
  /\ \E img \in ImagePaths : category' = "fedja"
  /\ pc' = "generate"
  /\ UNCHANGED <<botVars, variant, now, cycles, action, promptVars, environ, DEEPSEEK_RATE_LIMIT,
                 topics, news, genVars, postVars>>

\* temp.py post_fedja_tweet, post_regular_tweet, post_meme_tweet
TempPostFedjaTweet ==
  /\ variant = "temp"
  /\ pc = "post_fedja_tweet"
  /\ category' = "crypto_meme"
  /\ pc' = "generate"
  /\ UNCHANGED <<botVars, variant, now, cycles, action, promptVars, environ, DEEPSEEK_RATE_LIMIT,
                 topics, news, genVars, postVars>>

TempPostRegularTweet ==
  /\ variant = "temp"
  /\ pc = "post_regular_tweet"
  /\ category' = "general_crypto"
  /\ pc' = "generate"
  /\ UNCHANGED <<botVars, variant, now, cycles, action, promptVars, environ, DEEPSEEK_RATE_LIMIT,
                 topics, news, genVars, postVars>>

TempPostMemeTweet ==
  /\ variant = "temp"
  /\ pc = "post_meme_tweet"
  /\ category' = "crypto_meme"
  /\ pc' = "generate"
  /\ UNCHANGED <<botVars, variant, now, cycles, action, promptVars, environ, DEEPSEEK_RATE_LIMIT,
                 topics, news, genVars, postVars>>

(***************************************************************************)
(* post_regular_tweet of app.py                                            *)
(***************************************************************************)
\* app.py:277-282: fetch the topics; with none, generate from a fallback prompt
AppFetchTopics ==
  /\ variant = "app"
  /\ pc = "post_regular_tweet"
  /\ \E resp \in NewsResponses :
       /\ news' = resp
       /\ topics' = fetch_cryptopanic_topics(resp)
  /\ IF topics' = <<>>
       THEN category' = "general_crypto" /\ pc' = "generate"
       ELSE category' = category /\ pc' = "regular_call"
  /\ UNCHANGED <<botVars, variant, now, cycles, action, promptVars, environ, DEEPSEEK_RATE_LIMIT,
                 genVars, postVars>>

\* app.py:288-299: one call; its text is posted as it is when it is non-empty
\* and within the limit, otherwise generate from a fallback prompt
AppRegularCall ==
  /\ variant = "app"
  /\ pc = "regular_call"
  /\ \E out \in ProviderOutcomes :
       LET r == call_openai(out)
       IN  IF ~Truthy(r) \/ Len(r.text) > TWEET_LIMIT
             THEN /\ category' = "general_crypto"
                  /\ pc' = "generate"
                  /\ UNCHANGED <<summarized_text, final_tweet, handed, post_tweet_calls>>
             ELSE /\ summarized_text' = r
                  /\ final_tweet' = r.text
                  /\ handed' = Some(r.text)
                  /\ post_tweet_calls' = post_tweet_calls + 1
                  /\ pc' = "post_tweet"
                  /\ category' = category
  /\ UNCHANGED <<botVars, variant, now, cycles, action, promptVars, environ, DEEPSEEK_RATE_LIMIT,
                 topics, news, detailed_text, chunks, summaries, generated,
                 fedja_reference, image_path, gen_calls, gen_failed,
                 upload_calls, create_calls, post_result, media, media_ids>>

(***************************************************************************)
(* generate_and_post_tweet                                                 *)
(***************************************************************************)
\* 1 when the call gave the caller no text
Failed(r) == IF Truthy(r) THEN 0 ELSE 1

\* generate_and_post_tweet (app.py) that leaves the fallback line unsummarized
\* when the first provider call failed
AppGenerateSkipping ==
  /\ variant = "app"
  /\ pc = "generate"
  /\ \E out \in ProviderOutcomes,
        fb \in get_fallback_prompt(category, FEDJA_PROMPTS, GENERAL_CRYPTO_PROMPTS) :
       LET r == call_openai(out)
       IN  /\ detailed_text' = IF ~Truthy(r) THEN fb ELSE r.text
           /\ gen_calls' = gen_calls + 1
           /\ gen_failed' = gen_failed + Failed(r)
           /\ chunks' = IF ~Truthy(r) THEN <<>> ELSE chunk_text(detailed_text', CHUNK_SIZE)
  /\ summaries' = <<>>
  /\ pc' = "summarize"
  /\ UNCHANGED <<botVars, variant, now, cycles, action, category, promptVars, environ,
                 DEEPSEEK_RATE_LIMIT, topics, news, summarized_text, generated,
                 fedja_reference, final_tweet, image_path, postVars>>

\* app.py:179-182 and the start of summarize_text
AppGenerate ==
  /\ variant = "app"
  /\ pc = "generate"
  /\ \E out \in ProviderOutcomes,
        fb \in get_fallback_prompt(category, FEDJA_PROMPTS, GENERAL_CRYPTO_PROMPTS) :
       LET r == call_openai(out)
       IN  /\ detailed_text' = IF ~Truthy(r) THEN fb ELSE r.text
           /\ gen_calls' = gen_calls + 1
           /\ gen_failed' = gen_failed + Failed(r)
  /\ chunks' = chunk_text(detailed_text', CHUNK_SIZE)
  /\ summaries' = <<>>
  /\ pc' = "summarize"
  /\ UNCHANGED <<botVars, variant, now, cycles, action, category, promptVars, environ,
                 DEEPSEEK_RATE_LIMIT, topics, news, summarized_text, generated,
                 fedja_reference, final_tweet, image_path, postVars>>

\* app.py:130-134: one call per chunk, a summary is kept when it is non-empty
AppSummarizeChunk ==
  /\ variant = "app"
  /\ pc = "summarize"
  /\ chunks # <<>>
  /\ \E out \in ProviderOutcomes :
       LET summary == call_openai(out)
       IN  /\ summaries' = IF Truthy(summary)
                             THEN Append(summaries, summary.text) ELSE summaries
           /\ gen_calls' = gen_calls + 1
           /\ gen_failed' = gen_failed + Failed(summary)
  /\ chunks' = Tail(chunks)
  /\ UNCHANGED <<botVars, variant, pc, now, cycles, action, category, promptVars, environ,
                 DEEPSEEK_RATE_LIMIT, topics, news, detailed_text,
                 summarized_text, generated, fedja_reference, final_tweet,
                 image_path, postVars>>

\* app.py:137-148: the loop is over
AppSummarizeEnd ==
  /\ variant = "app"
  /\ pc = "summarize"
  /\ chunks = <<>>
  /\ summarized_text' = combine_summaries(summaries)
  /\ pc' = "finalize"
  /\ UNCHANGED <<botVars, variant, now, cycles, action, category, promptVars, environ,
                 DEEPSEEK_RATE_LIMIT, topics, news, detailed_text, chunks,
                 summaries, generated, fedja_reference, final_tweet, image_path,
                 gen_calls, gen_failed, postVars>>

\* app.py:186-232: settle final_tweet, append the reference for the category
\* "fedja", hand it to post_tweet without an image
AppFinalize ==
  /\ variant = "app"
  /\ pc = "finalize"
  /\ \E g \in SettledTweets(summarized_text,
                 get_fallback_prompt(category, FEDJA_PROMPTS, GENERAL_CRYPTO_PROMPTS),
                 Range(AppShortFallbacks)),
        ref \in AppReferences :
       /\ generated' = g
       /\ IF category = "fedja"
            THEN /\ fedja_reference' = Some(ref)
                 /\ final_tweet' = append_reference(generated', ref)
            ELSE /\ fedja_reference' = None
                 /\ final_tweet' = generated'
  /\ image_path' = "None"
  /\ handed' = Some(final_tweet')
  /\ post_tweet_calls' = post_tweet_calls + 1
  /\ pc' = "post_tweet"
  /\ UNCHANGED <<botVars, variant, now, cycles, action, category, promptVars, environ,
                 DEEPSEEK_RATE_LIMIT, topics, news, detailed_text, chunks,
                 summaries, summarized_text, gen_calls, gen_failed,
                 upload_calls, create_calls, post_result, media, media_ids>>

(***************************************************************************)
(* generate_and_post_tweet of temp.py                                      *)
(***************************************************************************)
\* a DeepSeek request: it raises before an answer is accepted ("error"), or
\* is accepted with a body the parsing raises on ("badbody"), or with a content
DeepSeekOutcomes ==
  { [status |-> "error", content |-> <<>>],
    [status |-> "badbody", content |-> <<>>] }
    \cup {[status |-> "ok", content |-> c] : c \in RawContents}

\* call_deepseek's return value
deepseek_result(out) ==
  IF out.status = "ok" THEN Some(strip(out.content)) ELSE None

\* call_deepseek's effect on the clock and on DEEPSEEK_RATE_LIMIT: sleep out
\* the retry delay, send, and note the time of an accepted answer (the clock
\* is read in whole seconds and the request itself takes none)
CallDeepseek(out) ==
  LET sent == now + deepseek_sleep(now, DEEPSEEK_RATE_LIMIT)
  IN  /\ now' = sent
      /\ DEEPSEEK_RATE_LIMIT' =
           IF out.status = "error" THEN DEEPSEEK_RATE_LIMIT
           ELSE [DEEPSEEK_RATE_LIMIT EXCEPT !.last_request_time = sent]

\* temp.py:186-189
TempGenerate ==
  /\ variant = "temp"
  /\ pc = "generate"
  /\ \E out \in DeepSeekOutcomes,
        fb \in Range(FALLBACK_PROMPTS[category]) :
       LET r == deepseek_result(out)
       IN  /\ CallDeepseek(out)
           /\ detailed_text' = IF ~Truthy(r) THEN fb ELSE r.text
           /\ gen_calls' = gen_calls + 1
           /\ gen_failed' = gen_failed + Failed(r)
  /\ pc' = "summarize"
  /\ UNCHANGED <<botVars, variant, cycles, action, category, promptVars, environ, topics, news,
                 chunks, summaries, summarized_text, generated, fedja_reference,
                 final_tweet, image_path, postVars>>

\* summarize_text (temp.py) that returns a text of at most 280 characters as
\* it is, without a provider call
TempSummarizeSkipping ==
  /\ variant = "temp"
  /\ pc = "summarize"
  /\ IF Len(detailed_text) <= TWEET_LIMIT
       THEN /\ summarized_text' = Some(detailed_text)
            /\ UNCHANGED <<now, DEEPSEEK_RATE_LIMIT, gen_calls, gen_failed>>
       ELSE \E out \in DeepSeekOutcomes :
              LET r == deepseek_result(out)
              IN  /\ CallDeepseek(out)
                  /\ summarized_text' = summarize_text_temp(r)
                  /\ gen_calls' = gen_calls + 1
                  /\ gen_failed' = gen_failed + Failed(r)
  /\ pc' = "finalize"
  /\ UNCHANGED <<botVars, variant, cycles, action, category, promptVars, environ, topics, news,
                 detailed_text, chunks, summaries, generated, fedja_reference,
                 final_tweet, image_path, postVars>>

\* temp.py:158-168: summarize_text, one call
TempSummarize ==
  /\ variant = "temp"
  /\ pc = "summarize"
  /\ \E out \in DeepSeekOutcomes :
       LET r == deepseek_result(out)
       IN  /\ CallDeepseek(out)
           /\ summarized_text' = summarize_text_temp(r)
           /\ gen_calls' = gen_calls + 1
           /\ gen_failed' = gen_failed + Failed(r)
  /\ pc' = "finalize"
  /\ UNCHANGED <<botVars, variant, cycles, action, category, promptVars, environ, topics, news,
                 detailed_text, chunks, summaries, generated, fedja_reference,
                 final_tweet, image_path, postVars>>

\* temp.py:193-240: settle final_tweet, pick an image, append a reference when
\* an image was found, hand both to post_tweet
TempFinalize ==
  /\ variant = "temp"
  /\ pc = "finalize"
  /\ \E g \in SettledTweets(summarized_text, Range(FALLBACK_PROMPTS[category]),
                                Range(TempShortFallbacks)),
        img \in ImagePaths,
        ref \in TempReferences :
       /\ generated' = g
       /\ image_path' = img
       /\ IF img # "None"
            THEN /\ fedja_reference' = Some(ref)
                 /\ final_tweet' = append_reference(generated', ref)
            ELSE /\ fedja_reference' = None
                 /\ final_tweet' = generated'
  /\ handed' = Some(final_tweet')
  /\ post_tweet_calls' = post_tweet_calls + 1
  /\ pc' = "post_tweet"
  /\ UNCHANGED <<botVars, variant, now, cycles, action, category, promptVars, environ,
                 DEEPSEEK_RATE_LIMIT, topics, news, detailed_text, chunks,
                 summaries, summarized_text, gen_calls, gen_failed,
                 upload_calls, create_calls, post_result, media, media_ids>>

(***************************************************************************)
(* post_tweet and the sleep                                                *)
(***************************************************************************)
\* the handles a media upload may return
MediaHandles == {"media_1", "media_2"}

\* post_tweet that posts the text alone when the upload fails
MediaUploadFallingBack ==
  /\ variant \in {"app", "temp"}
  /\ pc = "post_tweet"
  /\ image_path # "None"
  /\ upload_calls' = upload_calls + 1
  /\ \E answer \in MediaHandles \cup {"raised"} :
       /\ media' = IF answer = "raised" THEN media ELSE answer
       /\ pc' = "create_tweet"
       /\ post_result' = post_result
  /\ UNCHANGED <<botVars, variant, now, cycles, action, category, promptVars, environ,
                 DEEPSEEK_RATE_LIMIT, topics, news, genVars, handed, create_calls,
                 media_ids, post_tweet_calls>>

\* app.py:242-244, temp.py:250-252: with an image, the upload comes first and
\* returns a handle; a failed upload ends post_tweet
MediaUpload ==
  /\ variant \in {"app", "temp"}
  /\ pc = "post_tweet"
  /\ image_path # "None"
  /\ upload_calls' = upload_calls + 1
  /\ \E answer \in MediaHandles \cup {"raised"} :
       IF answer = "raised"
         THEN pc' = "sleep" /\ post_result' = "None" /\ media' = media
         ELSE pc' = "create_tweet" /\ post_result' = post_result /\ media' = answer
  /\ UNCHANGED <<botVars, variant, now, cycles, action, category, promptVars, environ,
                 DEEPSEEK_RATE_LIMIT, topics, news, genVars, handed, create_calls,
                 media_ids, post_tweet_calls>>

\* post_tweet that calls create_tweet again after a TweepyException
CreateTweetRetrying ==
  /\ variant \in {"app", "temp"}
  /\ \/ pc = "create_tweet"
     \/ pc = "post_tweet" /\ image_path = "None"
  /\ create_calls' = create_calls + 1
  /\ media_ids' = IF image_path # "None" THEN <<media>> ELSE <<>>
  /\ \E answer \in {"data", "no data", "TweepyException"} :
       /\ post_result' = IF answer = "data" THEN "tweet_id" ELSE "None"
       /\ pc' = IF answer = "TweepyException" /\ create_calls = 0
                 THEN "create_tweet" ELSE "sleep"
  /\ UNCHANGED <<botVars, variant, now, cycles, action, category, promptVars, environ,
                 DEEPSEEK_RATE_LIMIT, topics, news, genVars, handed, upload_calls,
                 media, post_tweet_calls>>

\* post_regular_tweet (app.py) that goes on to generate_and_post_tweet when
\* the post of its own text came back without data
CreateTweetThenFallback ==
  /\ variant \in {"app", "temp"}
  /\ \/ pc = "create_tweet"
     \/ pc = "post_tweet" /\ image_path = "None"
  /\ create_calls' = create_calls + 1
  /\ media_ids' = IF image_path # "None" THEN <<media>> ELSE <<>>
  /\ \E answer \in {"data", "no data", "TweepyException"} :
       /\ post_result' = IF answer = "data" THEN "tweet_id" ELSE "None"
       /\ pc' = IF /\ answer # "data"
                   /\ variant = "app"
                   /\ action = "regular_tweet"
                   /\ gen_calls = 0
                 THEN "generate" ELSE "sleep"
  /\ UNCHANGED <<botVars, variant, now, cycles, action, category, promptVars, environ,
                 DEEPSEEK_RATE_LIMIT, topics, news, genVars, handed, upload_calls,
                 media, post_tweet_calls>>

\* app.py:246-261: the post-create call and what post_tweet makes of its answer
CreateTweet ==
  /\ variant \in {"app", "temp"}
  /\ \/ pc = "create_tweet"
     \/ pc = "post_tweet" /\ image_path = "None"
  /\ create_calls' = create_calls + 1
  /\ media_ids' = IF image_path # "None" THEN <<media>> ELSE <<>>
  /\ \E answer \in {"data", "no data", "TweepyException"} :
       post_result' = IF answer = "data" THEN "tweet_id" ELSE "None"
  /\ pc' = "sleep"
  /\ UNCHANGED <<botVars, variant, now, cycles, action, category, promptVars, environ,
                 DEEPSEEK_RATE_LIMIT, topics, news, genVars, handed, upload_calls,
                 media, post_tweet_calls>>

\* app.py:319,323, temp.py:300,304,308, twitter_bot.py:292,301,313: the sleep
\* that ends an iteration
Sleep ==
  /\ pc = "sleep"
  /\ now' = now + SleepSeconds(action)
  /\ pc' = "select"
  /\ UNCHANGED <<botVars, variant, cycles, action, category, promptVars, environ,
                 DEEPSEEK_RATE_LIMIT, topics, news, genVars, postVars>>

(***************************************************************************)
(* twitter_bot.py: run_bot                                                 *)
(***************************************************************************)
\* what a chat completion may do: answer with a content and a token count,
\* raise RateLimitError, or raise something else
BotCompletions ==
  { [kind |-> "ok", content |-> <<>>, total_tokens |-> FewTokens],
    [kind |-> "ok", content |-> <<>>, total_tokens |-> ManyTokens],
    [kind |-> "ok", content |-> <<32>> \o Letters(ShortLen) \o <<10>>, total_tokens |-> FewTokens],
    [kind |-> "ok", content |-> Letters(TWEET_LIMIT + ExtraLen), total_tokens |-> ManyTokens],
    [kind |-> "rate_limit", content |-> <<>>, total_tokens |-> 0],
    [kind |-> "error", content |-> <<>>, total_tokens |-> 0] }

\* the backoff computed from the number of retries before this one
BackoffSecondsBeforeIncrement(k) ==
  IF 2 ^ (k - 1) < BACKOFF_CAP THEN 2 ^ (k - 1) ELSE BACKOFF_CAP

\* twitter_bot.py:248: the sleep after the k-th rate-limit error
BackoffSeconds(k) == IF 2 ^ k < BACKOFF_CAP THEN 2 ^ k ELSE BACKOFF_CAP

\* counting that adds the request and leaves the tokens out
count_usage_requests_only(usage, total_tokens) ==
  [usage EXCEPT !.requests_used = @ + 1]

\* twitter_bot.py:241-242: a successful call is counted
count_usage(usage, total_tokens) ==
  [usage EXCEPT !.tokens_used = @ + total_tokens, !.requests_used = @ + 1]

\* twitter_bot.py:280: run_bot draws an action (one of `drawn`, in at most
\* `bound` iterations)
BotSelectOf(drawn, bound) ==
  /\ variant = "bot"
  /\ pc = "select"
  /\ cycles < bound
  /\ \E a \in drawn :
       /\ action' = a
       /\ pc' = CASE a = "regular_tweet" -> "openai_check"
                  [] a = "meme_tweet" -> "fetch_trending"
                  [] OTHER -> "deepseek"
  /\ cycles' = cycles + 1
  /\ retries' = 0
  /\ reply' = None
  /\ response' = NoResponse
  /\ ds_requests' = 0
  /\ sleep_time' = <<>>
  /\ ResetLocals
  /\ UNCHANGED <<variant, now, category, promptVars, environ, DEEPSEEK_RATE_LIMIT,
                 OPENAI_RATE_LIMITS, TWITTER_RATE_LIMITS, last_trending_time,
                 cached_trending_topics, model, last_fetch>>

BotSelect == BotSelectOf({"regular_tweet", "meme_tweet", "analyze_trends"}, MaxBotCycles)

\* the iterations in which random.choice draws the regular tweet, the meme
BotSelectRegular == BotSelectOf({"regular_tweet"}, MaxLimiterCycles)
BotSelectMeme == BotSelectOf({"meme_tweet"}, MaxTopicCycles)

\* what run_bot does with the text a provider call returned: a regular tweet
\* and an analysis go to the platform, a caption goes to post_meme, and with
\* no text the loop starts over at once
Return(r) ==
  /\ reply' = r
  /\ IF ~Truthy(r)
       THEN pc' = "select" /\ final_tweet' = final_tweet
       ELSE CASE action = "regular_tweet" ->
                   pc' = "tweet" /\ final_tweet' = r.text
              [] action = "meme_tweet" ->
                   pc' = "post_meme" /\ final_tweet' = r.text
              [] OTHER ->
                   pc' = "tweet" /\ final_tweet' = AnalysisPrefix \o r.text

\* call_openai_with_backoff whose loop test is retries <= 5
BotCheckRateLimitOneMore ==
  /\ variant = "bot"
  /\ pc = "openai_check"
  /\ retries <= MAX_RETRIES
  /\ LET c == check_openai_rate_limit(OPENAI_RATE_LIMITS[model], now)
     IN  /\ OPENAI_RATE_LIMITS' = [OPENAI_RATE_LIMITS EXCEPT ![model] = c.usage]
         /\ now' = c.now
         /\ sleep_time' = c.sleeps
  /\ pc' = "openai_call"
  /\ UNCHANGED <<variant, cycles, action, category, promptVars, environ, DEEPSEEK_RATE_LIMIT,
                 topics, news, genVars, postVars, TWITTER_RATE_LIMITS,
                 last_trending_time, cached_trending_topics, model, retries,
                 reply, response, ds_requests, last_fetch>>

\* twitter_bot.py:225-228: the head of the retry loop
BotCheckRateLimit ==
  /\ variant = "bot"
  /\ pc = "openai_check"
  /\ retries < MAX_RETRIES
  /\ LET c == check_openai_rate_limit(OPENAI_RATE_LIMITS[model], now)
     IN  /\ OPENAI_RATE_LIMITS' = [OPENAI_RATE_LIMITS EXCEPT ![model] = c.usage]
         /\ now' = c.now
         /\ sleep_time' = c.sleeps
  /\ pc' = "openai_call"
  /\ UNCHANGED <<variant, cycles, action, category, promptVars, environ, DEEPSEEK_RATE_LIMIT,
                 topics, news, genVars, postVars, TWITTER_RATE_LIMITS,
                 last_trending_time, cached_trending_topics, model, retries,
                 reply, response, ds_requests, last_fetch>>

\* twitter_bot.py:225: five rate-limit errors end the loop, the call returns None
BotRetriesExhausted ==
  /\ variant = "bot"
  /\ pc = "openai_check"
  /\ retries >= MAX_RETRIES
  /\ Return(None)
  /\ UNCHANGED <<variant, now, cycles, action, category, promptVars, environ,
                 DEEPSEEK_RATE_LIMIT, topics, news, detailed_text, chunks,
                 summaries, summarized_text, generated, fedja_reference,
                 image_path, gen_calls, gen_failed, postVars, OPENAI_RATE_LIMITS,
                 TWITTER_RATE_LIMITS, last_trending_time, cached_trending_topics,
                 model, retries, response, ds_requests, sleep_time, last_fetch>>

\* twitter_bot.py:230-251: the request and what follows it
BotOpenAICall ==
  /\ variant = "bot"
  /\ pc = "openai_call"
  /\ \E out \in BotCompletions :
     /\ response' = out
     /\ CASE out.kind = "ok" ->
              /\ OPENAI_RATE_LIMITS' =
                   [OPENAI_RATE_LIMITS EXCEPT
                      ![model] = count_usage(@, out.total_tokens)]
              /\ Return(Some(strip(out.content)))
              /\ UNCHANGED <<now, retries>>
         [] out.kind = "rate_limit" ->
              /\ retries' = retries + 1
              /\ now' = now + BackoffSeconds(retries')
              /\ pc' = "openai_check"
              /\ UNCHANGED <<OPENAI_RATE_LIMITS, reply, final_tweet>>
         [] OTHER ->
              /\ Return(None)
              /\ UNCHANGED <<OPENAI_RATE_LIMITS, now, retries>>
  /\ UNCHANGED <<variant, cycles, action, category, promptVars, environ, DEEPSEEK_RATE_LIMIT,
                 topics, news, detailed_text, chunks, summaries, summarized_text,
                 generated, fedja_reference, image_path, gen_calls, gen_failed,
                 postVars, TWITTER_RATE_LIMITS, last_trending_time,
                 cached_trending_topics, model, ds_requests, sleep_time, last_fetch>>

\* fetch_trending_topics and run_bot's test of its result. last_fetch notes
\* the call: its kind, time and result, and the time and result of the last
\* call whose request was answered with a "results" field
BotFetchTrending ==
  /\ variant = "bot"
  /\ pc = "fetch_trending"
  /\ \E resp \in NewsResponses :
       LET f == fetch_trending_topics(cached_trending_topics, last_trending_time,
                                      now, resp)
           stored == f.requested /\ resp.status = "ok" /\ resp.has_results
       IN  /\ cached_trending_topics' = f.cached
           /\ last_trending_time' = f.last
           /\ topics' = f.result
           /\ news' = IF f.requested THEN resp ELSE news
           /\ last_fetch' =
                [kind |-> IF ~f.requested THEN "cached"
                          ELSE IF stored THEN "fetched"
                          ELSE IF resp.status = "ok" THEN "no results" ELSE "failed",
                 time |-> now,
                 result |-> f.result,
                 ok_time |-> IF stored THEN now ELSE last_fetch.ok_time,
                 ok_result |-> IF stored THEN f.result ELSE last_fetch.ok_result]
  /\ pc' = IF topics' # <<>> THEN "openai_check" ELSE "select"
  /\ UNCHANGED <<variant, now, cycles, action, category, promptVars, environ,
                 DEEPSEEK_RATE_LIMIT, genVars, postVars, OPENAI_RATE_LIMITS,
                 TWITTER_RATE_LIMITS, model, retries, reply, response, ds_requests,
                 sleep_time>>

\* what the DeepSeek endpoint may do: answer (with or without the rate-limit
\* headers), answer with a body the parsing raises on, refuse with HTTP 429
\* (with or without a Retry-After header), refuse with another status, or the
\* request raises. remaining = -1 stands for an answer without the headers
BotDeepSeekAnswers ==
  { [kind |-> "ok", content |-> c, remaining |-> -1, reset_in |-> 0, retry_after |-> 0] :
      c \in {<<>>, <<32>> \o Letters(ShortLen), Letters(TWEET_LIMIT + ExtraLen)} }
    \cup
  { [kind |-> "ok", content |-> Letters(ShortLen), remaining |-> r,
     reset_in |-> ResetIn, retry_after |-> 0] : r \in {0, HeaderRemaining} }
    \cup
  { [kind |-> "429", content |-> <<>>, remaining |-> -1, reset_in |-> 0, retry_after |-> v] :
      v \in {DEFAULT_RETRY_AFTER, RetryAfterHint} }
    \cup
  { [kind |-> k, content |-> <<>>, remaining |-> -1, reset_in |-> 0, retry_after |-> 0] :
      k \in {"badbody", "http_error", "error"} }

\* twitter_bot.py:177-184: retry_after after an answer received at time t that
\* carries the headers (the quotient is taken in whole seconds)
retry_after_from_headers(old, remaining, reset_time, t) ==
  IF remaining = -1 THEN old
  ELSE IF remaining = 0 THEN reset_time - t
  ELSE IF reset_time \div remaining > 1 THEN reset_time \div remaining ELSE 1

\* fetch_deepseek_response: the sleep, one request, and what follows it. After
\* a 429 the function sleeps and calls itself, which is this action again
BotDeepseek ==
  /\ variant = "bot"
  /\ pc = "deepseek"
  /\ ds_requests' = ds_requests + 1
  /\ LET sent == now + deepseek_sleep(now, DEEPSEEK_RATE_LIMIT)
     IN  \E out \in BotDeepSeekAnswers :
           CASE out.kind = "ok" ->
                  /\ DEEPSEEK_RATE_LIMIT' =
                       [last_request_time |-> sent,
                        retry_after |->
                          retry_after_from_headers(DEEPSEEK_RATE_LIMIT.retry_after,
                            out.remaining, sent + out.reset_in, sent)]
                  /\ now' = sent
                  /\ Return(Some(strip(out.content)))
             [] out.kind = "badbody" ->
                  /\ DEEPSEEK_RATE_LIMIT' =
                       [DEEPSEEK_RATE_LIMIT EXCEPT !.last_request_time = sent]
                  /\ now' = sent
                  /\ Return(None)
             [] out.kind = "429" ->
                  /\ ds_requests < MaxDeepseekRequests
                  /\ DEEPSEEK_RATE_LIMIT' =
                       [DEEPSEEK_RATE_LIMIT EXCEPT !.retry_after = out.retry_after]
                  /\ now' = sent + out.retry_after
                  /\ UNCHANGED <<pc, reply, final_tweet>>
             [] OTHER ->
                  /\ now' = sent
                  /\ Return(None)
                  /\ UNCHANGED DEEPSEEK_RATE_LIMIT
  /\ UNCHANGED <<variant, cycles, action, category, promptVars, environ, topics, news,
                 detailed_text, chunks, summaries, summarized_text, generated,
                 fedja_reference, image_path, gen_calls, gen_failed, postVars,
                 OPENAI_RATE_LIMITS, TWITTER_RATE_LIMITS, last_trending_time,
                 cached_trending_topics, model, retries, response, sleep_time,
                 last_fetch>>

\* twitter_bot.py:288, 309: check_twitter_rate_limit before a tweet
BotCheckTwitter ==
  /\ variant = "bot"
  /\ pc = "tweet"
  /\ LET c == check_twitter_rate_limit(TWITTER_RATE_LIMITS, now)
     IN  /\ TWITTER_RATE_LIMITS' = c.limits
         /\ now' = c.now
  /\ pc' = "create_tweet"
  /\ UNCHANGED <<variant, cycles, action, category, promptVars, environ, DEEPSEEK_RATE_LIMIT,
                 topics, news, genVars, postVars, OPENAI_RATE_LIMITS,
                 last_trending_time, cached_trending_topics, model, retries,
                 reply, response, ds_requests, sleep_time, last_fetch>>

\* twitter_bot.py:289-290, 310-311: the post-create call; it is not guarded, so
\* an exception ends run_bot; otherwise the tweet is counted
BotCreateTweet ==
  /\ variant = "bot"
  /\ pc = "create_tweet"
  /\ handed' = Some(final_tweet)
  /\ create_calls' = create_calls + 1
  /\ media_ids' = <<>>
  /\ \E raised \in BOOLEAN :
       IF raised
         THEN /\ pc' = "crashed"
              /\ post_result' = "raised"
              /\ UNCHANGED TWITTER_RATE_LIMITS
         ELSE /\ pc' = "sleep"
              /\ post_result' = "posted"
              /\ TWITTER_RATE_LIMITS' =
                   [TWITTER_RATE_LIMITS EXCEPT !.tweets.remaining = @ - 1]
  /\ UNCHANGED <<variant, now, cycles, action, category, promptVars, environ,
                 DEEPSEEK_RATE_LIMIT, topics, news, genVars, upload_calls, media,
                 post_tweet_calls,
                 OPENAI_RATE_LIMITS, last_trending_time, cached_trending_topics,
                 model, retries, reply, response, ds_requests, sleep_time, last_fetch>>

\* twitter_bot.py:269-270: generate_meme returns a path, or None when it fails,
\* and then nothing is posted
BotGenerateMeme ==
  /\ variant = "bot"
  /\ pc = "post_meme"
  /\ \E path \in {"None", "images/generated_meme.jpg"} :
       /\ image_path' = path
       /\ pc' = IF path = "None" THEN "sleep" ELSE "meme_upload"
  /\ UNCHANGED <<variant, now, cycles, action, category, promptVars, environ,
                 DEEPSEEK_RATE_LIMIT, topics, news, detailed_text, chunks,
                 summaries, summarized_text, generated, fedja_reference,
                 final_tweet, gen_calls, gen_failed, postVars, botVars>>

\* twitter_bot.py:271: the upload; it is not guarded
BotMemeUpload ==
  /\ variant = "bot"
  /\ pc = "meme_upload"
  /\ upload_calls' = upload_calls + 1
  /\ \E answer \in MediaHandles \cup {"raised"} :
       IF answer = "raised"
         THEN pc' = "crashed" /\ post_result' = "raised" /\ media' = media
         ELSE pc' = "meme_create" /\ post_result' = post_result /\ media' = answer
  /\ UNCHANGED <<variant, now, cycles, action, category, promptVars, environ,
                 DEEPSEEK_RATE_LIMIT, topics, news, genVars, handed, create_calls,
                 media_ids, post_tweet_calls, botVars>>

\* twitter_bot.py:272: the post-create call with the caption
BotMemeCreate ==
  /\ variant = "bot"
  /\ pc = "meme_create"
  /\ handed' = Some(final_tweet)
  /\ create_calls' = create_calls + 1
  /\ media_ids' = <<media>>
  /\ \E raised \in BOOLEAN :
       IF raised THEN pc' = "crashed" /\ post_result' = "raised"
                 ELSE pc' = "sleep" /\ post_result' = "posted"
  /\ UNCHANGED <<variant, now, cycles, action, category, promptVars, environ,
                 DEEPSEEK_RATE_LIMIT, topics, news, genVars, upload_calls, media,
                 post_tweet_calls, botVars>>

(***************************************************************************)
(* Specification                                                           *)
(***************************************************************************)
vars ==
  <<variant, pc, now, cycles, action, category, promptVars, environ, DEEPSEEK_RATE_LIMIT,
    topics, news, genVars, postVars, botVars>>

Next ==
  \/ RunBotSelect
  \/ AppPostFedjaTweet
  \/ AppFetchTopics
  \/ AppRegularCall
  \/ AppGenerate
  \/ AppSummarizeChunk
  \/ AppSummarizeEnd
  \/ AppFinalize
  \/ TempPostFedjaTweet
  \/ TempPostRegularTweet
  \/ TempPostMemeTweet
  \/ TempGenerate
  \/ TempSummarize
  \/ TempFinalize
  \/ MediaUpload
  \/ CreateTweet
  \/ Sleep
  \/ BotSelect
  \/ BotCheckRateLimit
  \/ BotRetriesExhausted
  \/ BotOpenAICall
  \/ BotFetchTrending
  \/ BotDeepseek
  \/ BotCheckTwitter
  \/ BotCreateTweet
  \/ BotGenerateMeme
  \/ BotMemeUpload
  \/ BotMemeCreate

Spec == Init /\ [][Next]_vars

\* twitter_bot.py alone
InitBot == Init /\ variant = "bot"

\* run_bot when every draw is the regular tweet: the OpenAI limiter at work
NextLimiter ==
  \/ BotSelectRegular
  \/ BotCheckRateLimit
  \/ BotRetriesExhausted
  \/ BotOpenAICall
  \/ BotCheckTwitter
  \/ BotCreateTweet
  \/ Sleep

SpecLimiter == InitBot /\ [][NextLimiter]_vars

\* run_bot when every draw is the meme tweet: the topic cache at work
NextTopics ==
  \/ BotSelectMeme
  \/ BotFetchTrending
  \/ BotCheckRateLimit
  \/ BotRetriesExhausted
  \/ BotOpenAICall
  \/ BotGenerateMeme
  \/ BotMemeUpload
  \/ BotMemeCreate
  \/ Sleep

SpecTopics == InitBot /\ [][NextTopics]_vars

\* the limiter functions applied to limit records whose request limit and
\* daily tweet limit are 0 instead of the literals 3 and 50
ZeroOpenAILimits ==
  [m \in Models |-> [InitialOpenAILimits(StartTime)[m] EXCEPT !.rpm = 0]]
ZeroTwitterLimits ==
  [InitialTwitterLimits(StartTime) EXCEPT !.tweets.daily_limit = 0,
                                          !.tweets.remaining = 0]
InitZeroLimit == InitWith(ZeroOpenAILimits, ZeroTwitterLimits) /\ variant = "bot"
SpecZeroLimit == InitZeroLimit /\ [][NextLimiter]_vars

\* the programs from the start of the process
NextStartup ==
  \/ ValidateCredentials
  \/ BuildClients
  \/ Main
  \/ Next

SpecStartup == InitStartup /\ [][NextStartup]_vars

\* chunk_text applied to every text of ChunkInputs
NextChunkText == ChunkText

SpecChunkText == InitChunkText /\ [][NextChunkText]_vars


(***************************************************************************)
(* Properties                                                              *)
(***************************************************************************)
IsPrefix(a, b) == Len(a) <= Len(b) /\ a = SubSeq(b, 1, Len(a))

\* the promotional suffixes of the running program
References == IF variant = "app" THEN AppReferences ELSE TempReferences

\* C1: in app.py and temp.py the text handed to post_tweet has at most 280
\* characters, whatever the providers returned and whatever the category
C1_HandedWithinLimit ==
  (variant \in {"app", "temp"} /\ handed.ok) => Len(handed.text) <= TWEET_LIMIT

\* C1 case: the provider answered with more than 280 characters, the text was
\* summarized, and a text of exactly 280 characters was handed over
C1_Witness ==
  /\ variant = "app"
  /\ handed.ok
  /\ Len(detailed_text) > TWEET_LIMIT
  /\ Len(handed.text) = TWEET_LIMIT

\* C2: in twitter_bot.py every text passed to a post-create call has at most
\* 280 characters, however long the provider output is
C2_BotTweetWithinLimit ==
  (variant = "bot" /\ handed.ok) => Len(handed.text) <= TWEET_LIMIT

\* C3: every text the promotional action hands to post_tweet ends with one of
\* the two promotional suffixes
C3_PromoEndsWithSuffix ==
  (variant \in {"app", "temp"} /\ action = "fedja_tweet" /\ handed.ok)
    => \E ref \in References : EndsWith(handed.text, ref)

\* C4: when a promotional suffix is appended, the handed text ends with the
\* suffix; what precedes it is the whole body if body and suffix fit in 280
\* characters, and otherwise the first 280 - len(suffix) characters of the
\* body, the result being exactly 280 characters long
C4_AppendReference ==
  (variant \in {"app", "temp"} /\ handed.ok /\ fedja_reference.ok) =>
    LET ref  == fedja_reference.text
        kept == SubSeq(handed.text, 1, Len(handed.text) - Len(ref))
    IN  /\ EndsWith(handed.text, ref)
        /\ IsPrefix(kept, generated)
        /\ Len(generated) + Len(ref) <= TWEET_LIMIT => kept = generated
        /\ Len(generated) + Len(ref) > TWEET_LIMIT =>
             /\ Len(kept) = TWEET_LIMIT - Len(ref)
             /\ Len(handed.text) = TWEET_LIMIT

\* C4 case: the body and the suffix do not fit together and the body is cut
C4_Witness ==
  /\ handed.ok
  /\ fedja_reference.ok
  /\ Len(generated) + Len(fedja_reference.text) > TWEET_LIMIT
  /\ Len(handed.text) = TWEET_LIMIT

\* C5: if every provider call of one generate_and_post_tweet failed, the
\* function has still handed a non-empty text to post_tweet once it is past
\* its fallback stages, for every category and every prompt file
C5_FallbackNonEmpty ==
  (/\ variant \in {"app", "temp"}
   /\ pc \in {"post_tweet", "create_tweet", "sleep"}
   /\ gen_calls > 0
   /\ gen_failed = gen_calls)
    => handed.ok /\ handed.text # <<>>

\* C5 case: both provider calls failed and the prompt list of the category
\* is empty
C5_Witness ==
  /\ variant = "app"
  /\ category = "fedja"
  /\ FEDJA_PROMPTS = <<>>
  /\ gen_calls >= 2
  /\ gen_failed = gen_calls
  /\ handed.ok
  /\ handed.text # <<>>

\* C6 as stated: a call to fetch_trending_topics less than 900 seconds after
\* any earlier call returns the earlier call's list and makes no request
C6_AnyCallRepeats ==
  [][(/\ pc = "fetch_trending"
      /\ last_fetch.kind # "none"
      /\ now - last_fetch.time < CACHE_TTL)
       => /\ last_fetch'.kind = "cached"
          /\ last_fetch'.result = last_fetch.result]_vars

\* C6: a call to fetch_trending_topics less than 900 seconds after a call
\* whose request was answered with a "results" field returns the list that
\* call returned and makes no request
C6_StoredCallRepeats ==
  [][(/\ pc = "fetch_trending"
      /\ last_fetch.ok_time >= 0
      /\ now - last_fetch.ok_time < CACHE_TTL)
       => /\ last_fetch'.kind = "cached"
          /\ last_fetch'.result = last_fetch.ok_result
          /\ topics' = last_fetch.ok_result
          /\ news' = news]_vars

\* C6 case: a non-empty list was served from the cache
C6_Witness ==
  /\ last_fetch.kind = "cached"
  /\ last_fetch.ok_time >= 0
  /\ last_fetch.time - last_fetch.ok_time < CACHE_TTL
  /\ last_fetch.result # <<>>
  /\ last_fetch.result = last_fetch.ok_result

\* C7: when the request of fetch_trending_topics fails, the call returns an
\* empty sequence and leaves cached_trending_topics and last_trending_time
\* as they were
C7_FailureKeepsCache ==
  [][(pc = "fetch_trending" /\ last_fetch'.kind = "failed")
       => /\ topics' = <<>>
          /\ cached_trending_topics' = cached_trending_topics
          /\ last_trending_time' = last_trending_time]_vars

\* C7 case: a request failed while a non-empty list was cached, and the list
\* is still there
C7_Witness ==
  /\ last_fetch.kind = "failed"
  /\ last_fetch.result = <<>>
  /\ cached_trending_topics # <<>>
  /\ cached_trending_topics = last_fetch.ok_result

\* the titles of l occur in results, in the order of l
InSourceOrder(l, results) ==
  LET Pos(t) == CHOOSE k \in DOMAIN results :
                  results[k].has_title /\ results[k].title = t
  IN  /\ \A i \in DOMAIN l :
           \E k \in DOMAIN results : results[k].has_title /\ results[k].title = l[i]
      /\ \A i, j \in DOMAIN l : i < j => Pos(l[i]) < Pos(l[j])

\* the lists the fetchers returned and the cache, against the answer in hand
TopicLists == {topics, cached_trending_topics}
Shortlisted(l) ==
  /\ Len(l) <= MAX_TOPICS
  /\ (news.status = "ok" /\ news.has_results) => InSourceOrder(l, news.results)

\* C8 as stated: every returned list and the cache have at most 5 titles in
\* source order, each containing a keyword
C8_AllFiltered ==
  \A l \in TopicLists : Shortlisted(l) /\ \A i \in DOMAIN l : relevant(l[i])

\* C8: every returned list and the cache have at most 5 titles in source
\* order; each title returned by fetch_cryptopanic_topics contains a keyword,
\* compared in lower case
C8_TopicLists ==
  \A l \in TopicLists :
    /\ Shortlisted(l)
    /\ variant # "bot" => \A i \in DOMAIN l : relevant(l[i])

\* C8 case: fetch_cryptopanic_topics dropped a title without keyword and cut
\* the rest to 5
C8_Witness ==
  /\ variant = "app"
  /\ news.status = "ok"
  /\ Len(news.results) > MAX_TOPICS + 1
  /\ Len(topics) = MAX_TOPICS
  /\ \E k \in DOMAIN news.results : ~relevant(news.results[k].title)

\* C9: when check_openai_rate_limit finds rpm requests counted in a window
\* that is not over, it computes one wait between 0 and 60 seconds, and once
\* the wait is over both counters are 0 and a new window starts at that time
C9_WaitThenFreshWindow ==
  [][(/\ pc = "openai_check"
      /\ retries < MAX_RETRIES
      /\ OPENAI_RATE_LIMITS[model].requests_used >= OPENAI_RATE_LIMITS[model].rpm
      /\ now - OPENAI_RATE_LIMITS[model].last_reset < WINDOW_SECONDS)
       => /\ Len(sleep_time') = 1
          /\ sleep_time'[1].seconds >= 0
          /\ sleep_time'[1].seconds <= WINDOW_SECONDS
          /\ now' = now + sleep_time'[1].seconds
          /\ OPENAI_RATE_LIMITS'[model].requests_used = 0
          /\ OPENAI_RATE_LIMITS'[model].tokens_used = 0
          /\ OPENAI_RATE_LIMITS'[model].last_reset = now']_vars

\* C9 case: the check slept on the request limit and the call is about to
\* be issued in the new window
C9_Witness ==
  /\ pc = "openai_call"
  /\ Len(sleep_time) = 1
  /\ sleep_time[1].limit = "requests"
  /\ sleep_time[1].seconds > 0
  /\ OPENAI_RATE_LIMITS[model].requests_used = 0
  /\ OPENAI_RATE_LIMITS[model].last_reset = now

\* C10: requests_used never exceeds rpm for any model, and it is below rpm
\* whenever call_openai_with_backoff issues a provider call
C10_RequestsWithinLimit ==
  /\ \A m \in Models : OPENAI_RATE_LIMITS[m].requests_used <= OPENAI_RATE_LIMITS[m].rpm
  /\ pc = "openai_call" =>
       OPENAI_RATE_LIMITS[model].requests_used < OPENAI_RATE_LIMITS[model].rpm

\* C10 case: a model has used all the requests of its window
C10_Witness ==
  /\ variant = "bot"
  /\ \E m \in Models : OPENAI_RATE_LIMITS[m].requests_used = OPENAI_RATE_LIMITS[m].rpm

\* C11: tokens_used never exceeds tpm for any model
C11_TokensWithinBudget ==
  \A m \in Models : OPENAI_RATE_LIMITS[m].tokens_used <= OPENAI_RATE_LIMITS[m].tpm

C13_HintNeverShortens ==
  [][pc = "deepseek" =>
       LET answered == IF pc' = "deepseek"
                         THEN now' - DEEPSEEK_RATE_LIMIT'.retry_after
                         ELSE now'
           unhinted == [DEEPSEEK_RATE_LIMIT' EXCEPT
                          !.retry_after = DEEPSEEK_RATE_LIMIT.retry_after]
       IN  now' + deepseek_sleep(now', DEEPSEEK_RATE_LIMIT')
             >= answered + deepseek_sleep(answered, unhinted)]_vars

\* C14: run_bot is never ended by an error: whatever a provider, the news
\* source or the platform answers, the loop is never left
C14_SchedulerNeverEnds == pc # "crashed"

\* C15: run_bot comes back to selecting an action only out of the sleep of
\* the action it executed, a sleep of 30 minutes to 12 hours; no two actions
\* are selected without a sleep in between
C15_SleepBetweenSelections ==
  [][(pc # "select" /\ pc' = "select") =>
       /\ pc = "sleep"
       /\ now' - now = SleepSeconds(action)
       /\ now' - now >= SLEEP_REGULAR
       /\ now' - now <= SLEEP_FEDJA]_vars

\* C16: one post_tweet makes at most one upload and at most one post-create
\* call; once a platform call has failed, post_tweet has returned None and
\* the loop is at its sleep or at the next selection, with no further call
C16_PostTweetNeverRetries ==
  variant \in {"app", "temp"} =>
    /\ create_calls <= 1
    /\ upload_calls <= 1
    /\ post_result = "None" => pc \in {"sleep", "select"}
    /\ pc = "create_tweet" => create_calls = 0 /\ upload_calls = 1

\* C16 case: the upload failed and no post-create call was made
C16_Witness ==
  /\ variant = "temp"
  /\ handed.ok
  /\ upload_calls = 1
  /\ create_calls = 0
  /\ post_result = "None"
  /\ pc = "select"

\* the static fallback lines of the running program for the current category
FallbackLines ==
  IF variant = "app"
    THEN get_fallback_prompt(category, FEDJA_PROMPTS, GENERAL_CRYPTO_PROMPTS)
    ELSE Range(FALLBACK_PROMPTS[category])
ShortLines ==
  IF variant = "app" THEN Range(AppShortFallbacks) ELSE Range(TempShortFallbacks)

\* the first provider call of generate_and_post_tweet has just returned
AfterFirstCall ==
  variant \in {"app", "temp"} /\ pc = "summarize" /\ gen_calls = 1

\* C17 as stated: when the first provider call returned a non-empty text of
\* at most 280 characters, no summarization call follows and the text is
\* the body
C17_ShortTextSkipsSummary ==
  [][/\ (AfterFirstCall /\ gen_failed = 0 /\ Len(detailed_text) <= TWEET_LIMIT)
          => gen_calls' = gen_calls
     /\ (pc = "finalize" /\ gen_calls = 1 /\ gen_failed = 0
           /\ Len(detailed_text) <= TWEET_LIMIT)
          => generated' = detailed_text]_vars

\* C17: when the first provider call returned a non-empty text of at most
\* 280 characters, a summarization call on that text still follows, and the
\* body is the summary whenever summarize_text returned one
C17_SummaryAlwaysRuns ==
  [][/\ (AfterFirstCall /\ gen_failed = 0 /\ Len(detailed_text) <= TWEET_LIMIT)
          => gen_calls' = gen_calls + 1
     /\ (variant \in {"app", "temp"} /\ pc = "finalize" /\ Truthy(summarized_text))
          => generated' = summarized_text.text]_vars

\* C17 case: a short first text was summarized and the summary, not the
\* text, was handed on
C17_Witness ==
  /\ variant = "temp"
  /\ handed.ok
  /\ gen_calls = 2
  /\ gen_failed = 0
  /\ Len(detailed_text) <= TWEET_LIMIT
  /\ generated = summarized_text.text
  /\ generated # detailed_text

CutEvery(pieces, text, n) ==
  /\ Join(pieces, <<>>) = text
  /\ \A i \in DOMAIN pieces :
       /\ pieces[i] # <<>>
       /\ Len(pieces[i]) <= n
       /\ i < Len(pieces) => Len(pieces[i]) = n

\* C19: summarize_text (app.py) cuts the text into chunks of 1000 characters,
\* makes one provider call per chunk in chunk order, keeps the summaries that
\* are not empty in that order, and returns their join with single spaces:
\* whole when it has at most 280 characters, its first 280 characters when
\* it is longer, and None when there is no summary
C19_SummarizeText ==
  [][variant = "app" =>
       /\ pc = "generate" => CutEvery(chunks', detailed_text', CHUNK_SIZE)
       /\ (pc = "summarize" /\ chunks # <<>>) =>
            /\ gen_calls' = gen_calls + 1
            /\ chunks' = Tail(chunks)
            /\ \/ gen_failed' = gen_failed + 1 /\ summaries' = summaries
               \/ /\ gen_failed' = gen_failed
                  /\ Len(summaries') = Len(summaries) + 1
                  /\ SubSeq(summaries', 1, Len(summaries)) = summaries
                  /\ summaries'[Len(summaries')] # <<>>
       /\ (pc = "summarize" /\ chunks = <<>>) =>
            LET joined == Join(summaries, <<32>>)
            IN  /\ gen_calls' = gen_calls
                /\ IF summaries = <<>>
                     THEN ~summarized_text'.ok
                     ELSE /\ summarized_text'.ok
                          /\ IsPrefix(summarized_text'.text, joined)
                          /\ Len(summarized_text'.text) =
                               IF Len(joined) > TWEET_LIMIT
                                 THEN TWEET_LIMIT ELSE Len(joined)]_vars

\* C19 case: a text of more than 1000 characters took two calls, both
\* summaries came back, and their join was cut to exactly 280 characters
C19_Witness ==
  /\ variant = "app"
  /\ pc = "finalize"
  /\ Len(detailed_text) > CHUNK_SIZE
  /\ gen_calls = 3
  /\ Len(summaries) = 2
  /\ Len(Join(summaries, <<32>>)) > TWEET_LIMIT
  /\ summarized_text.ok
  /\ Len(summarized_text.text) = TWEET_LIMIT

\* C20 as stated: after a rate-limit response each provider function issues
\* at most one further request for the call
C20_RetriesOnce ==
  /\ pc = "openai_call" => retries <= 1
  /\ pc = "deepseek" => ds_requests <= 1

\* C20: call_openai_with_backoff issues a request only after fewer than 5
\* rate-limit errors, sleeps min(2^retries, 60) seconds after each of them
\* before it tries again, and returns None after the fifth;
\* fetch_deepseek_response answers every 429 by sleeping Retry-After seconds
\* and making one more request
C20_RetriesUpToLimit ==
  [][variant = "bot" =>
       /\ pc = "openai_call" => retries < MAX_RETRIES
       /\ (pc = "openai_call" /\ retries' # retries) =>
            /\ retries' = retries + 1
            /\ now' = now + BackoffSeconds(retries')
            /\ pc' = "openai_check"
       /\ (pc = "openai_check" /\ retries >= MAX_RETRIES) =>
            pc' = "select" /\ ~reply'.ok
       /\ (pc = "deepseek" /\ pc' = "deepseek") =>
            /\ ds_requests' = ds_requests + 1
            /\ now' >= now + DEEPSEEK_RATE_LIMIT'.retry_after]_vars

\* C20 case: after four rate-limit errors the fifth request of the call is
\* about to be issued
C20_Witness ==
  /\ variant = "bot"
  /\ pc = "openai_call"
  /\ retries = MAX_RETRIES - 1

\* a required credential is absent or empty
CredentialMissing ==
  \E c \in RequiredCredentials(variant) : environ[c] \in {"absent", "empty"}

\* no provider, news or platform call has been made and no action selected
NothingCalled ==
  /\ cycles = 0
  /\ gen_calls = 0
  /\ ds_requests = 0
  /\ news = NoNews
  /\ last_fetch.kind = "none"
  /\ reply = None
  /\ upload_calls = 0
  /\ create_calls = 0
  /\ post_tweet_calls = 0
  /\ handed = None

\* C21: when a required credential is absent or empty the import raises at the
\* test: the program never gets to build the platform clients, to start the
\* liveness thread or to enter run_bot, and no provider, news or platform call
\* is made
C21_StartupFailsFast ==
  /\ [](CredentialMissing => pc \in {"import", "raised"} /\ NothingCalled)
  /\ [][(pc = "import" /\ CredentialMissing) => pc' = "raised"]_vars

\* C21 case: the import has raised because a required credential is the empty
\* string while none is absent
C21_Witness ==
  /\ pc = "raised"
  /\ \E c \in RequiredCredentials(variant) : environ[c] = "empty"
  /\ \A c \in Credentials : environ[c] # "absent"

\* C23: in twitter_bot.py remaining stays within 0..daily_limit and every
\* post-create call that posts is made right after check_twitter_rate_limit
\* and takes one off remaining, so that the daily quota counts every post
C23_QuotaCountsEveryPost ==
  /\ [](variant = "bot" =>
          /\ TWITTER_RATE_LIMITS.tweets.remaining >= 0
          /\ TWITTER_RATE_LIMITS.tweets.remaining <= TWITTER_RATE_LIMITS.tweets.daily_limit)
  /\ [][(variant = "bot" /\ create_calls' = create_calls + 1 /\ post_result' = "posted") =>
          /\ pc = "create_tweet"
          /\ TWITTER_RATE_LIMITS'.tweets.remaining
               = TWITTER_RATE_LIMITS.tweets.remaining - 1]_vars

\* C24: fetch_deepseek_response makes a bounded number of requests: whatever
\* the answers, a call that has made MaxDeepseekRequests requests has returned
\* (the bound is as many requests as the model follows; the code has none)
C24_RequestsBounded ==
  (variant = "bot" /\ pc = "deepseek") => ds_requests < MaxDeepseekRequests

\* C25: call_openai_with_backoff sends a request only as one of its first 5
\* attempts; the k-th rate-limit error of a call is followed by a wait of
\* min(2^k, 60) seconds, which is at most 60 and not shorter than the wait
\* before it; any other outcome ends the call without a wait, with None when
\* it was an error; and after the 5th rate-limit error the call returns None
\* with no further request
C25_BoundedBackoff ==
  [][variant = "bot" =>
       /\ pc = "openai_call" => retries + 1 <= MAX_RETRIES
       /\ (pc = "openai_call" /\ pc' = "openai_check") =>
            LET k == retries'
                wait == now' - now
            IN  /\ k = retries + 1
                /\ wait = Min({2 ^ k, 60})
                /\ wait <= 60
                /\ k > 1 => wait >= Min({2 ^ (k - 1), 60})
       /\ (pc = "openai_call" /\ pc' # "openai_check") =>
            /\ now' = now
            /\ retries' = retries
            /\ ~reply'.ok => pc' = "select"
       /\ (pc = "openai_check" /\ retries >= MAX_RETRIES) =>
            /\ pc' = "select"
            /\ reply' = None
            /\ now' = now
            /\ OPENAI_RATE_LIMITS' = OPENAI_RATE_LIMITS]_vars

\* C25 case: the fifth rate-limit error of a call has been waited out
C25_Witness ==
  /\ variant = "bot"
  /\ pc = "openai_check"
  /\ retries = MAX_RETRIES

\* C26: a DeepSeek request is sent at least retry_after seconds after the
\* request before it, whatever became of that one. In temp.py the request of
\* summarize_text follows the first request of generate_and_post_tweet, which
\* was sent at the clock of the state before; in twitter_bot.py a request
\* made after a 429 follows the refused one, after which the function slept
\* retry_after seconds
C26_RequestsSpaced ==
  [][/\ (variant = "temp" /\ pc = "summarize") =>
          now' - now >= DEEPSEEK_RATE_LIMIT.retry_after
     /\ (variant = "bot" /\ pc = "deepseek" /\ ds_requests > 0) =>
          LET before == now - DEEPSEEK_RATE_LIMIT.retry_after
              sent == IF pc' = "deepseek"
                        THEN now' - DEEPSEEK_RATE_LIMIT'.retry_after ELSE now'
          IN  sent - before >= DEEPSEEK_RATE_LIMIT.retry_after]_vars

C28_ResetWhenExpiredOrReached ==
  [][(variant = "bot" /\ pc = "openai_check" /\ retries < MAX_RETRIES) =>
       LET before == OPENAI_RATE_LIMITS[model]
           after == OPENAI_RATE_LIMITS'[model]
           expired == now - before.last_reset >= 60
           reached == \/ before.tokens_used >= before.tpm
                      \/ before.requests_used >= before.rpm
       IN  /\ expired =>
                /\ after = [before EXCEPT !.tokens_used = 0, !.requests_used = 0,
                                          !.last_reset = now]
                /\ now' = now
                /\ sleep_time' = <<>>
           /\ (~expired /\ ~reached) =>
                /\ after = before
                /\ now' = now
                /\ sleep_time' = <<>>
           /\ after # before =>
                /\ expired \/ reached
                /\ after.tokens_used = 0
                /\ after.requests_used = 0
                /\ after.last_reset = now']_vars

\* C28 case: in a later iteration a check has found the window expired and
\* has started a new one at the current clock without waiting
C28_Witness ==
  /\ variant = "bot"
  /\ pc = "openai_call"
  /\ cycles >= 2
  /\ sleep_time = <<>>
  /\ now > StartTime
  /\ OPENAI_RATE_LIMITS[model].last_reset = now
  /\ OPENAI_RATE_LIMITS[model].tokens_used = 0
  /\ OPENAI_RATE_LIMITS[model].requests_used = 0

\* C29: in app.py and temp.py an iteration of run_bot calls post_tweet at most
\* once and makes at most one post-create call, on every path; an action is
\* selected only when the loop is at its head, and the loop comes back to its
\* head only from the sleep that ends the action before
C29_OnePostPerCycle ==
  /\ [](variant \in {"app", "temp"} =>
          /\ post_tweet_calls <= 1
          /\ create_calls <= post_tweet_calls
          /\ post_tweet_calls = 1 <=> handed.ok)
  /\ [][(variant \in {"app", "temp"}) =>
          /\ cycles' # cycles => pc = "select" /\ cycles' = cycles + 1
          /\ (pc' = "select" /\ pc # "select") => pc \in {"sleep", "main"}]_vars

\* C29 case: post_regular_tweet of app.py found topics, its own call gave no
\* usable text, generate_and_post_tweet ran in its place, and the iteration
\* ended with one post_tweet and one post-create call
C29_Witness ==
  /\ variant = "app"
  /\ action = "regular_tweet"
  /\ topics # <<>>
  /\ gen_calls > 0
  /\ post_tweet_calls = 1
  /\ create_calls = 1
  /\ pc = "select"

\* C30: post_tweet with a media path uploads first, and the post it creates
\* carries the handle that upload returned; when the upload fails no post is
\* created; with no media path there is no upload and the post carries no
\* media
C30_UploadThenPost ==
  /\ [](variant \in {"app", "temp"} =>
          /\ image_path = "None" => upload_calls = 0 /\ media_ids = <<>>
          /\ (image_path # "None" /\ create_calls > 0) =>
               /\ upload_calls = 1
               /\ media \in MediaHandles
               /\ media_ids = <<media>>
          /\ (upload_calls > 0 /\ media \notin MediaHandles) => create_calls = 0)
  /\ [][(variant \in {"app", "temp"} /\ upload_calls' > upload_calls) =>
          /\ create_calls = 0
          /\ create_calls' = 0]_vars

\* C30 case: post_tweet of temp.py was given an image, the upload returned a
\* handle, and the post was created with that handle
C30_Witness ==
  /\ variant = "temp"
  /\ image_path # "None"
  /\ upload_calls = 1
  /\ create_calls = 1
  /\ media = "media_2"
  /\ media_ids = <<"media_2">>
  /\ post_result = "tweet_id"

\* C31: chunk_text(text, 1000) splits without loss: the chunks concatenated
\* in order are the text again, every chunk has between 1 and 1000
\* characters, every chunk but the last has exactly 1000, there are
\* ceil(len(text) / 1000) chunks, and the empty text gives no chunk
C31_ChunkTextLossless ==
  pc = "chunked" =>
    /\ Join(chunks, <<>>) = detailed_text
    /\ \A i \in DOMAIN chunks :
         /\ Len(chunks[i]) >= 1
         /\ Len(chunks[i]) <= CHUNK_SIZE
         /\ i < Len(chunks) => Len(chunks[i]) = CHUNK_SIZE
    /\ Len(chunks) = (Len(detailed_text) + CHUNK_SIZE - 1) \div CHUNK_SIZE
    /\ detailed_text = <<>> => chunks = <<>>

\* C31 case: a text of more than two full chunks whose length is no multiple
\* of CHUNK_SIZE was cut, and the last chunk is the short remainder
C31_Witness ==
  /\ pc = "chunked"
  /\ Len(detailed_text) > 2 * CHUNK_SIZE
  /\ Len(detailed_text) % CHUNK_SIZE # 0
  /\ Len(chunks) = 3
  /\ Len(chunks[3]) = Len(detailed_text) % CHUNK_SIZE

=============================================================================
